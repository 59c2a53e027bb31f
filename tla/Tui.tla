--------------------------------- MODULE Tui ---------------------------------
(***************************************************************************)
(* The terminal interface (tui/).  Its loop refreshes the list of pending  *)
(* proposals when it is time, draws, and then handles a key or an event,   *)
(* whichever comes first.  Lists have cursors that are indexes, from 0,    *)
(* and a popup shows the row of an index.                                  *)
(*                                                                         *)
(* Of the events this keeps what the lists and the process tree depend on, *)
(* of a filter that it is empty or not, of the configuration a value for   *)
(* each field the text has.                                                *)
(***************************************************************************)
EXTENDS Integers, Sequences, FiniteSets, SequencesExt

CONSTANTS
  Pid,      \* process ids, a set of numbers
  Cap,      \* rows that the lists of events and incidents keep
  Sessions, \* what an instance is about: see Session
  None

Action == {"Allowed", "Logged", "Blocked", "Killed", "Alerted"}

Event == [pid : Pid, ppid : Pid \cup {0}, hit : BOOLEAN, action : Action]

\* A row of the lists of events and incidents.
ListRow == [hit : BOOLEAN, action : Action]

Value == {"", "true", "false"}

\* The events that come, the proposals that are staged (older ones are
\* smaller), the fields of the editor, those that are BOOLEAN, and those that
\* config.toml has; and whether the pipeline can end.
Session == [events : SUBSET Event, proposals : SUBSET Nat, fields : Seq(STRING),
            bools : SUBSET STRING, present : SUBSET STRING, ends : BOOLEAN]

Tab == {"Dashboard", "Events", "Incidents", "Config", "ProcessTree", "Pending"}
List == Tab \ {"Dashboard"}

ASSUME TuiAssumption ==
  /\ Pid \subseteq Nat /\ Cap \in Nat \ {0}
  /\ Sessions \subseteq Session
  /\ \A s \in Sessions : /\ IsFiniteSet(s.proposals)
                         /\ s.bools \cup s.present \subseteq ToSet(s.fields)
  /\ None \notin Event /\ None \notin Nat

VARIABLES
  session,   \* one of Sessions
  pc,        \* "frame", "select", or "quit"
  typed,     \* a key has been typed
  arrived,   \* an event is in the channel
  ended,     \* the pipeline has dropped its end of it
  due,       \* the interval of the pending list is over
  view,      \* App: tab, at (the cursors), popup, mode, query, filter
  rows,      \* App: events, incidents
  procs,     \* App.process_map: the parents of the processes seen
  pending,   \* App.pending
  value,     \* App.config_fields: the values shown
  editor,    \* App: editing, buf, modified
  text,      \* App.config_text
  dir,       \* pending_dir
  shown,     \* history: the proposal that is highlighted on the screen
  opened,    \* history: the row that the popup was opened on
  shifted,   \* history: a row was dropped from a list since then
  saved      \* history: the text that was read or written last

loopVars == <<pc, typed, arrived, ended>>
dataVars == <<rows, procs, shifted>>
reviewVars == <<pending, due, dir>>
editVars == <<value, editor, text, saved>>
vars == <<session, loopVars, view, opened, dataVars, reviewVars, shown, editVars>>

Fields == ToSet(session.fields)

Init ==
  /\ session \in Sessions
  /\ pc = "frame" /\ typed = FALSE /\ due = TRUE
  /\ arrived = FALSE /\ ended = FALSE
  /\ view = [tab |-> "Dashboard", at |-> [l \in List |-> 0], popup |-> None,
             mode |-> "normal", query |-> FALSE, filter |-> "All"]
  /\ rows = [Events |-> <<>>, Incidents |-> <<>>] /\ procs = <<>>
  /\ pending = <<>> /\ dir \in SUBSET session.proposals
  /\ text \in [session.present -> Value \ {""}]
  /\ value = [f \in Fields |-> IF f \in session.present THEN text[f] ELSE ""]
  /\ editor = [editing |-> FALSE, buf |-> "", modified |-> FALSE]
  /\ shown = None /\ opened = None /\ shifted = FALSE /\ saved = text

-----------------------------------------------------------------------------
(***************************************************************************)
(* Lists                                                                   *)
(***************************************************************************)
\* The members of a finite set of numbers, the least first.
Ascending(S) ==
  [k \in 1..Cardinality(S) |-> CHOOSE n \in S : Cardinality({m \in S : m <= n}) = k]

\* The rows of a list that are wanted, in the order of the list.
Filtered(list, wanted) ==
  LET at == Ascending({i \in DOMAIN list : list[i] \in wanted})
  IN  [k \in DOMAIN at |-> list[at[k]]]

filtered_events == Filtered(rows.Events, {r \in ListRow : view.query => r.hit})

filtered_incidents ==
  Filtered(rows.Incidents,
           {r \in ListRow : CASE view.filter = "Blocked" -> r.action \in {"Blocked", "Killed"}
                              [] view.filter = "Alerted" -> r.action = "Alerted"
                              [] OTHER -> TRUE})

Listed(l) == CASE l = "Events" -> filtered_events
               [] l = "Incidents" -> filtered_incidents
               [] OTHER -> pending

Length(l) == CASE l = "ProcessTree" -> Cardinality(DOMAIN procs)
               [] l = "Config" -> Len(session.fields)
               [] OTHER -> Len(Listed(l))

RowAt(list, i) == IF i < Len(list) THEN list[i + 1] ELSE None

Scrolled == IF view.tab = "Dashboard" THEN "Events" ELSE view.tab

-----------------------------------------------------------------------------
(***************************************************************************)
(* A turn of the loop: maybe_refresh_pending and draw, then a key or an    *)
(* event.                                                                  *)
(***************************************************************************)
Highlighted == RowAt(pending, view.at["Pending"])

\* The cursor stays in the list that was read.
RefreshTo(list) ==
  /\ pending' = list
  /\ view' = [view EXCEPT !.at["Pending"] =
                IF @ < Len(list) THEN @ ELSE IF list = <<>> THEN 0 ELSE Len(list) - 1]

\* maybe_refresh_pending: a directory that cannot be read leaves the list.
Refresh ==
  /\ due' = FALSE
  /\ \/ due /\ RefreshTo(Ascending(dir))
     \/ UNCHANGED <<pending, view>>

\* Slip: the list is refreshed after it is drawn.
FrameEarly ==
  /\ pc = "frame" /\ pc' = "select"
  /\ shown' = Highlighted /\ Refresh
  /\ UNCHANGED <<session, typed, arrived, ended, opened, dataVars, dir, editVars>>

Frame ==
  /\ pc = "frame" /\ pc' = "select"
  /\ Refresh /\ shown' = Highlighted'
  /\ UNCHANGED <<session, typed, arrived, ended, opened, dataVars, dir, editVars>>

Row(e) == [hit |-> e.hit, action |-> e.action]

\* Slip: rows are put in front.
PushedFirst(list, e) ==
  LET l == <<Row(e)>> \o list IN IF Len(l) > Cap THEN Front(l) ELSE l

Pushed(list, e) ==
  LET l == Append(list, Row(e)) IN IF Len(l) > Cap THEN Tail(l) ELSE l

\* push_event: the parent is the one that the first event of the process named.
PushEvent(e) ==
  LET incident == e.action \in {"Blocked", "Alerted", "Killed"}
      changed == {"Events"} \cup IF incident THEN {"Incidents"} ELSE {}
  IN  /\ rows' = [l \in DOMAIN rows |-> IF l \in changed THEN Pushed(rows[l], e) ELSE rows[l]]
      /\ procs' = IF e.pid \in DOMAIN procs THEN procs
                  ELSE [p \in DOMAIN procs \cup {e.pid} |->
                          IF p = e.pid THEN e.ppid ELSE procs[p]]
      /\ shifted' = (shifted \/ \E l \in changed : Len(rows[l]) = Cap)

\* Slip: the end of the channel is taken for an event, again and again.
TakeEventOrEnd(e) ==
  /\ pc = "select" /\ pc' = "frame"
  /\ \/ arrived /\ arrived' = FALSE /\ PushEvent(e)
     \/ ended /\ ~arrived /\ UNCHANGED <<arrived, dataVars>>
  /\ UNCHANGED <<session, typed, ended, view, opened, reviewVars, shown, editVars>>

\* The arm of the event drops the key handler, which has not read a key yet.  At
\* the end of the channel there is no such arm.
TakeEvent(e) ==
  /\ pc = "select" /\ pc' = "frame"
  /\ arrived /\ arrived' = FALSE
  /\ PushEvent(e)
  /\ UNCHANGED <<session, typed, ended, view, opened, reviewVars, shown, editVars>>

\* The handler waits for 50 ms, and the loop goes on.
NoKey ==
  /\ pc = "select" /\ ~typed /\ pc' = "frame"
  /\ UNCHANGED <<session, typed, arrived, ended, view, opened, dataVars, reviewVars, shown,
                 editVars>>

-----------------------------------------------------------------------------
(***************************************************************************)
(* EventHandler::handle: a popup has all keys, then the editor, then the   *)
(* filter; what is left are those of normal mode.                          *)
(***************************************************************************)
\* Other keys than the three that close it do nothing.
PopupKey ==
  /\ view.popup # None
  /\ \/ view' = [view EXCEPT !.popup = None] /\ opened' = None /\ shifted' = FALSE
     \/ UNCHANGED <<view, opened, shifted>>
  /\ UNCHANGED <<rows, procs, reviewVars, editVars>>

Field == RowAt(session.fields, view.at["Config"])

\* confirm_config_edit: what the text has no line for is only shown.
Confirm(v) ==
  /\ value' = [value EXCEPT ![Field] = v]
  /\ text' = IF Field \in DOMAIN text THEN [text EXCEPT ![Field] = v] ELSE text
  /\ editor' = [editing |-> FALSE, buf |-> "", modified |-> TRUE]

Toggle(v) == IF v = "true" THEN "false" ELSE "true"

\* A character toggles a field that is BOOLEAN and confirms it.
EditKey ==
  /\ view.popup = None /\ editor.editing
  /\ \/ editor' = [editor EXCEPT !.editing = FALSE, !.buf = ""] /\ UNCHANGED <<value, text>>
     \/ Confirm(editor.buf)
     \/ \E v \in Value : editor' = [editor EXCEPT !.buf = v] /\ UNCHANGED <<value, text>>
     \/ Field \in session.bools /\ Confirm(Toggle(editor.buf))
  /\ UNCHANGED <<view, opened, dataVars, reviewVars, saved>>

\* Enter takes over what has been typed, which may be nothing.
FilterKey ==
  /\ view.popup = None /\ ~editor.editing /\ view.mode = "filtering"
  /\ \/ view' = [view EXCEPT !.query = FALSE, !.mode = "normal"]
     \/ \E query \in BOOLEAN :
          view' = [view EXCEPT !.query = query, !.mode = "normal", !.at["Events"] = 0]
     \/ UNCHANGED view
  /\ UNCHANGED <<opened, dataVars, reviewVars, editVars>>

InNormalMode == view.popup = None /\ ~editor.editing /\ view.mode = "normal"

SwitchTab ==
  /\ InNormalMode
  /\ \E t \in Tab : view' = [view EXCEPT !.tab = t]
  /\ UNCHANGED <<opened, dataVars, reviewVars, editVars>>

Scroll ==
  /\ InNormalMode
  /\ LET at == view.at[Scrolled]
     IN  \/ view' = [view EXCEPT !.at[Scrolled] = IF at = 0 THEN 0 ELSE at - 1]
         \/ at + 1 < Length(Scrolled) /\ view' = [view EXCEPT !.at[Scrolled] = at + 1]
  /\ UNCHANGED <<opened, dataVars, reviewVars, editVars>>

\* open_detail: the index of the cursor, whether there is a row or not.
OpenDetail ==
  /\ InNormalMode /\ view.tab \in {"Events", "Incidents", "Pending"}
  /\ Listed(view.tab) # <<>>
  /\ LET at == view.at[view.tab]
     IN  /\ view' = [view EXCEPT !.popup = [on |-> view.tab, idx |-> at]]
         /\ opened' = RowAt(Listed(view.tab), at)
  /\ shifted' = FALSE
  /\ UNCHANGED <<rows, procs, reviewVars, editVars>>

StartFilter ==
  /\ InNormalMode /\ view.tab = "Events"
  /\ view' = [view EXCEPT !.mode = "filtering"]
  /\ UNCHANGED <<opened, dataVars, reviewVars, editVars>>

\* cycle_incident_filter
CycleFilter ==
  /\ InNormalMode /\ view.tab = "Incidents"
  /\ view' = [view EXCEPT !.at["Incidents"] = 0,
                !.filter = CASE @ = "All" -> "Blocked" [] @ = "Blocked" -> "Alerted"
                             [] OTHER -> "All"]
  /\ UNCHANGED <<opened, dataVars, reviewVars, editVars>>

\* pending_accept_current and pending_reject_current: the file is moved or
\* removed, if it is still there, and the list is due.
Decide ==
  /\ InNormalMode /\ view.tab = "Pending" /\ Highlighted # None
  /\ dir' = dir \ {Highlighted} \/ UNCHANGED dir
  /\ due' = TRUE
  /\ UNCHANGED <<view, opened, dataVars, pending, editVars>>

StartEdit ==
  /\ InNormalMode /\ view.tab = "Config" /\ Field # None
  /\ editor' = [editor EXCEPT !.editing = TRUE, !.buf = value[Field]]
  /\ UNCHANGED <<view, opened, dataVars, reviewVars, value, text, saved>>

\* Slip: a save that fails is a save.
SaveAnyway ==
  /\ InNormalMode /\ view.tab = "Config"
  /\ editor' = [editor EXCEPT !.modified = FALSE]
  /\ saved' = text \/ UNCHANGED saved
  /\ UNCHANGED <<view, opened, dataVars, reviewVars, value, text>>

\* save_config writes the whole text, whatever the file has become; it can fail.
Save ==
  /\ InNormalMode /\ view.tab = "Config"
  /\ \/ editor' = [editor EXCEPT !.modified = FALSE] /\ saved' = text
     \/ UNCHANGED <<editor, saved>>
  /\ UNCHANGED <<view, opened, dataVars, reviewVars, value, text>>

OtherKey ==
  /\ InNormalMode
  /\ UNCHANGED <<view, opened, dataVars, reviewVars, editVars>>

HandleKey ==
  /\ pc = "select" /\ typed /\ pc' = "frame" /\ typed' = FALSE
  /\ \/ PopupKey \/ EditKey \/ FilterKey \/ SwitchTab \/ Scroll \/ OpenDetail
     \/ StartFilter \/ CycleFilter \/ Decide \/ StartEdit \/ Save \/ OtherKey
  /\ UNCHANGED <<session, arrived, ended, shown>>

\* Esc and q in normal mode, and an error of the terminal.
Quit ==
  /\ pc = "select" /\ pc' = "quit"
  /\ UNCHANGED <<session, typed, arrived, ended, view, opened, dataVars, reviewVars, shown,
                 editVars>>

-----------------------------------------------------------------------------
(***************************************************************************)
(* The user, the pipeline, the clock, and others in pending_dir            *)
(***************************************************************************)
Type ==
  /\ ~typed /\ typed' = TRUE
  /\ UNCHANGED <<session, pc, arrived, ended, view, opened, dataVars, reviewVars, shown, editVars>>

Arrive ==
  /\ session.events # {} /\ ~arrived /\ ~ended /\ arrived' = TRUE
  /\ UNCHANGED <<session, pc, typed, ended, view, opened, dataVars, reviewVars, shown, editVars>>

End ==
  /\ session.ends /\ ~ended /\ ended' = TRUE
  /\ UNCHANGED <<session, pc, typed, arrived, view, opened, dataVars, reviewVars, shown, editVars>>

Elapse ==
  /\ ~due /\ due' = TRUE
  /\ UNCHANGED <<session, loopVars, view, opened, dataVars, pending, dir, shown, editVars>>

Stage(p) ==
  /\ p \notin dir /\ dir' = dir \cup {p}
  /\ UNCHANGED <<session, loopVars, view, opened, dataVars, pending, due, shown, editVars>>

Vanish(p) ==
  /\ p \in dir /\ dir' = dir \ {p}
  /\ UNCHANGED <<session, loopVars, view, opened, dataVars, pending, due, shown, editVars>>

Turn == Frame \/ (\E e \in session.events : TakeEvent(e)) \/ HandleKey \/ NoKey

Next ==
  \/ Turn \/ Quit \/ Type \/ Arrive \/ End \/ Elapse
  \/ \E p \in session.proposals : Stage(p) \/ Vanish(p)

\* The loop runs; its select does not promise an arm its turn.
Spec == Init /\ [][Next]_vars /\ WF_vars(Turn)

-----------------------------------------------------------------------------
\* A decision is about the proposal that the screen highlights: between drawing
\* and the key nothing moves the list or the cursor ("Keep the cursor valid if
\* items vanished", app.rs:259), although others remove proposals at any time.
DecisionFollowsDisplay ==
  pc = "select" => /\ shown = Highlighted
                   /\ pending # <<>> => shown # None

\* A popup on an event or an incident shows the row it was opened on, by an index
\* into a list that grows and is filtered, until the list drops its first row.
PopupKeepsRow ==
  (view.popup # None /\ view.popup.on # "Pending" /\ ~shifted)
    => RowAt(Listed(view.popup.on), view.popup.idx) = opened

\* Changes that are not saved are marked as such until a save has worked.
UnsavedIsMarked == text # saved => editor.modified

\* A key that was typed is handled when events stop coming for a while, even if
\* they do because the channel was closed; while they keep coming it may wait.
KeysAreHandled == <>[]~arrived => (typed ~> (~typed \/ pc = "quit"))

=============================================================================
