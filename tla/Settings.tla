------------------------------ MODULE Settings ------------------------------
(***************************************************************************)
(* The dashboard's settings (frontend/src/settings.rs) and the callbacks   *)
(* of App and SettingsDrawer that change them (frontend/src/main.rs).      *)
(*                                                                         *)
(* A tab holds them in memory, saves them as one blob in localStorage and  *)
(* mirrors two fields in the fragment of its URL.  A top-level page shares *)
(* its storage with the other tabs and sets its fragment itself.  Within   *)
(* the sandbox of the freenet shell the storage is the tab's own and lost  *)
(* with a reload, and the shell sets the fragment when it gets to the      *)
(* message; it hands it back to the page before the page reads it.         *)
(*                                                                         *)
(* Of the fields, one stands for each way they are treated: the list of    *)
(* known nodes and the sidebar's width, which are mirrored, the list's     *)
(* tab, and the tick of the animation for the numbers that are clamped.    *)
(***************************************************************************)
EXTENDS Integers, Sequences

CONSTANTS
    Tabs,
    Lists,              \* lists of known nodes, whatever their `source` says
    DefaultList,
    EmptyList,          \* []
    LongLists,          \* lists whose encoding has 7000 bytes or more
    Widths, Ticks,      \* numbers the user may type or drag to
    Blobs, Fragments,   \* what storage and URL may hold before, or be edited to
    Garbage,            \* a blob that does not parse
    Absent,
    MaxOps              \* bound on what users do

ASSUME SettingsAssumption ==
    /\ {DefaultList, EmptyList} \cup LongLists \subseteq Lists
    /\ DefaultList # EmptyList /\ DefaultList \notin LongLists
    /\ Absent \notin Lists \cup Int
    /\ Widths \cup Ticks \subseteq Int

ListTabs == {"nodes", "contracts"}

(* What parses as settings or as a fragment, whatever the numbers.         *)
RawSetting == [nodes : Lists, width : Int, tab : ListTabs, tick : Int]
RawFragment == [nodes : Lists \cup {Absent}, width : Int \cup {Absent}]

ASSUME StoredAssumption ==
    /\ Blobs \subseteq RawSetting \cup {Absent, Garbage}
    /\ Fragments \subseteq RawFragment
    /\ Absent \notin RawSetting

VARIABLES
    sandboxed,          \* whether the page runs within the shell
    storage,            \* localStorage[STORAGE_KEY], of each tab or of all
    fragment,           \* of each tab's URL
    posted,             \* fragments on their way to the shell
    settings,           \* App's settings, of each tab
    dragging,           \* is_dragging
    saved,              \* history: what a tab saved last, Absent if its URL was edited or the save lost
    resetLast,          \* history: a tab's reset was the last change to what it loads
    ops

page == <<settings, dragging>>
vars == <<sandboxed, storage, fragment, posted, page, saved, resetLast, ops>>

SidebarWidths == 220 .. 800
TickRates == 16 .. 200

Setting == [nodes : Lists, width : SidebarWidths, tab : ListTabs, tick : TickRates]

NoFragment == [nodes |-> Absent, width |-> Absent]

(* Settings::default(). *)
Default == [nodes |-> DefaultList, width |-> 320, tab |-> "nodes", tick |-> 33]

(* The slot of localStorage a tab sees. *)
Shared == "shared"
Slot(t) == IF sandboxed THEN t ELSE Shared

-----------------------------------------------------------------------------
Clamp(n, low, high) == IF n < low THEN low ELSE IF n > high THEN high ELSE n

Normalize(s) == [s EXCEPT !.width = Clamp(@, 220, 800), !.tick = Clamp(@, 16, 200)]

(* Mutated: the width is taken as it is written. *)
WithFragmentRaw(s, f) ==
    [s EXCEPT !.nodes = IF f.nodes = Absent THEN @ ELSE f.nodes,
              !.width = IF f.width = Absent THEN @ ELSE f.width]

(* with_persistent_from_fragment. *)
WithFragment(s, f) ==
    [s EXCEPT !.nodes = IF f.nodes = Absent THEN @ ELSE f.nodes,
              !.width = IF f.width = Absent THEN @ ELSE Clamp(f.width, 220, 800)]

(* Mutated: the fragment is read over what was stored only.                *)
LoadedStored(blob, f) ==
    IF blob \in {Absent, Garbage} THEN Default ELSE WithFragment(Normalize(blob), f)

(* load_from_storage. *)
Loaded(blob, f) ==
    WithFragment(IF blob \in {Absent, Garbage} THEN Default ELSE Normalize(blob), f)

(* What write_persistent_to_fragment writes. *)
Mirrored(list) == list # EmptyList /\ list \notin LongLists

(* Mutated: a list that is the default is left out, as the width is.       *)
MirrorCustom(s) ==
    [nodes |-> IF Mirrored(s.nodes) /\ s.nodes # DefaultList THEN s.nodes ELSE Absent,
     width |-> IF s.width # Default.width THEN s.width ELSE Absent]

Mirror(s) ==
    [nodes |-> IF Mirrored(s.nodes) THEN s.nodes ELSE Absent,
     width |-> IF s.width # Default.width THEN s.width ELSE Absent]

-----------------------------------------------------------------------------
(* history.replaceState of a hash: an empty one may clear the fragment or  *)
(* leave it, as the HTML standard has it for an empty URL.                 *)
Replaced(old, f) == IF f = NoFragment THEN {old, f} ELSE {f}

(***************************************************************************)
(* save_to_storage: the blob, which storage may refuse, and the fragment.  *)
(***************************************************************************)
Save(t, s, before) ==
    /\ storage' \in {[before EXCEPT ![Slot(t)] = s], before}
    /\ IF sandboxed
       THEN posted' = [posted EXCEPT ![t] = Append(@, Mirror(s))] /\ UNCHANGED fragment
       ELSE /\ \E f \in Replaced(fragment[t], Mirror(s)) : fragment' = [fragment EXCEPT ![t] = f]
            /\ UNCHANGED posted
    /\ saved' = [saved EXCEPT ![t] = s]

Sees(t) == {other \in Tabs : Slot(other) = Slot(t)}

Keep(t, s) ==
    /\ Save(t, s, storage)
    /\ settings' = [settings EXCEPT ![t] = s]
    /\ resetLast' = [other \in Tabs |-> resetLast[other] /\ other \notin Sees(t)]

Acts == ops < MaxOps /\ ops' = ops + 1 /\ UNCHANGED sandboxed

(* The sidebar: a drag changes the width, and its end saves it.            *)
DragStart(t) ==
    /\ Acts
    /\ ~dragging[t]
    /\ dragging' = [dragging EXCEPT ![t] = TRUE]
    /\ UNCHANGED <<storage, fragment, posted, settings, saved, resetLast>>

DragMove(t, x) ==
    /\ Acts
    /\ dragging[t]
    /\ settings[t].width # Clamp(x, 220, 800)
    /\ settings' = [settings EXCEPT ![t].width = Clamp(x, 220, 800)]
    /\ UNCHANGED <<storage, fragment, posted, dragging, saved, resetLast>>

DragEnd(t) ==
    /\ Acts
    /\ dragging[t]
    /\ Keep(t, settings[t])
    /\ dragging' = [dragging EXCEPT ![t] = FALSE]

(* on_filter_change; on_publisher_filter_set when the tab is another one.  *)
ChooseTab(t, tab) ==
    /\ Acts
    /\ ~dragging[t]
    /\ Keep(t, [settings[t] EXCEPT !.tab = tab])
    /\ UNCHANGED dragging

(* SettingsDrawer's mutate. *)
Edit(t, s) ==
    /\ Acts
    /\ ~dragging[t]
    /\ Keep(t, Normalize(s))
    /\ UNCHANGED dragging

(* Mutated: the blob is erased and memory set back, and that is all.       *)
ResetForgets(t) ==
    /\ Acts
    /\ ~dragging[t]
    /\ storage' = [storage EXCEPT ![Slot(t)] = Absent]
    /\ settings' = [settings EXCEPT ![t] = Default]
    /\ saved' = [saved EXCEPT ![t] = Default]
    /\ resetLast' = [other \in Tabs |-> other = t \/ (resetLast[other] /\ other \notin Sees(t))]
    /\ UNCHANGED <<fragment, posted, dragging>>

(* "reset all to defaults". *)
Reset(t) ==
    /\ Acts
    /\ ~dragging[t]
    /\ Save(t, Default, [storage EXCEPT ![Slot(t)] = Absent])
    /\ settings' = [settings EXCEPT ![t] = Default]
    /\ resetLast' = [other \in Tabs |-> other = t \/ (resetLast[other] /\ other \notin Sees(t))]
    /\ UNCHANGED dragging

(* A reload: a sandbox starts with an empty storage, and what the shell    *)
(* did not get to is lost.                                                 *)
Kept(t) == IF sandboxed THEN [storage EXCEPT ![t] = Absent] ELSE storage

Reload(t) ==
    /\ Acts
    /\ storage' = Kept(t)
    /\ posted' = [posted EXCEPT ![t] = <<>>]
    /\ settings' = [settings EXCEPT ![t] = Loaded(storage'[Slot(t)], fragment[t])]
    /\ dragging' = [dragging EXCEPT ![t] = FALSE]
    /\ saved' = [saved EXCEPT ![t] = IF posted[t] = <<>> THEN @ ELSE Absent]
    /\ resetLast' = [resetLast EXCEPT ![t] = @ /\ posted[t] = <<>>]
    /\ UNCHANGED fragment

-----------------------------------------------------------------------------
(* The shell sets the fragment it was posted.                              *)
ShellApplies(t) ==
    /\ posted[t] # <<>>
    /\ \E f \in Replaced(fragment[t], Head(posted[t])) : fragment' = [fragment EXCEPT ![t] = f]
    /\ posted' = [posted EXCEPT ![t] = Tail(@)]
    /\ UNCHANGED <<sandboxed, storage, page, saved, resetLast, ops>>

(* Users edit what is stored, or the URL.                                  *)
EditBlob(t, blob) ==
    /\ Acts
    /\ storage' = [storage EXCEPT ![Slot(t)] = blob]
    /\ resetLast' = [other \in Tabs |-> resetLast[other] /\ other \notin Sees(t)]
    /\ UNCHANGED <<fragment, posted, page, saved>>

EditFragment(t, f) ==
    /\ Acts
    /\ fragment' = [fragment EXCEPT ![t] = f]
    /\ saved' = [saved EXCEPT ![t] = Absent]
    /\ resetLast' = [resetLast EXCEPT ![t] = FALSE]
    /\ UNCHANGED <<storage, posted, page>>

Init ==
    /\ sandboxed \in BOOLEAN
    /\ \E blob \in Blobs : storage = [x \in Tabs \cup {Shared} |-> IF sandboxed THEN Absent ELSE blob]
    /\ \E f \in Fragments : fragment = [t \in Tabs |-> f]
    /\ posted = [t \in Tabs |-> <<>>]
    /\ settings = [t \in Tabs |-> Loaded(storage[Slot(t)], fragment[t])]
    /\ dragging = [t \in Tabs |-> FALSE]
    /\ saved = [t \in Tabs |-> Absent]
    /\ resetLast = [t \in Tabs |-> FALSE]
    /\ ops = 0

Next ==
    \E t \in Tabs :
        \/ DragStart(t) \/ DragEnd(t) \/ \E x \in Widths : DragMove(t, x)
        \/ \E tab \in ListTabs : ChooseTab(t, tab)
        \/ \E w \in Widths : Edit(t, [settings[t] EXCEPT !.width = w])
        \/ \E n \in Ticks : Edit(t, [settings[t] EXCEPT !.tick = n])
        \/ Reset(t) \/ Reload(t) \/ ShellApplies(t)
        \/ \E blob \in Blobs : EditBlob(t, blob)
        \/ \E f \in Fragments : EditFragment(t, f)

Spec == Init /\ [][Next]_vars

-----------------------------------------------------------------------------
(***************************************************************************)
(* "a hand-edited localStorage entry can't crash the layout": whatever is  *)
(* stored, written in the URL, typed or dragged, every number App runs     *)
(* with is in its range.                                                   *)
(***************************************************************************)
InRange ==
    /\ sandboxed \in BOOLEAN
    /\ DOMAIN settings = Tabs /\ \A t \in Tabs : settings[t] \in Setting
    /\ \A t \in Tabs : saved[t] = Absent \/ saved[t] \in Setting
    /\ \A t \in Tabs : sandboxed \/ posted[t] = <<>>
    /\ dragging \in [Tabs -> BOOLEAN]

(***************************************************************************)
(* "a sandbox-iframe hard reload doesn't reset them": within the shell a   *)
(* reload brings back the width and the nodes saved last, if the shell got *)
(* to the message, the list was one that is mirrored, and the hash was not *)
(* empty; and the defaults of everything else.                             *)
(***************************************************************************)
SandboxRemembers ==
    [][\A t \in Tabs :
          Reload(t) /\ sandboxed /\ saved'[t] # Absent /\ Mirror(saved[t]) # NoFragment =>
              settings'[t] =
                  [Default EXCEPT !.nodes = IF Mirrored(saved[t].nodes) THEN saved[t].nodes
                                            ELSE DefaultList,
                                  !.width = saved[t].width]]_vars

(***************************************************************************)
(* Tabs share a blob that each writes as a whole, yet a reload of one      *)
(* brings back its own list of nodes and its own width, not the ones       *)
(* another tab saved over them or storage refused, unless they are the     *)
(* width or a list the URL leaves out.                                     *)
(***************************************************************************)
TabKeepsOwn ==
    [][\A t \in Tabs :
          Reload(t) /\ ~sandboxed /\ saved[t] # Absent =>
              /\ Mirrored(saved[t].nodes) => settings'[t].nodes = saved[t].nodes
              /\ saved[t].width # Default.width => settings'[t].width = saved[t].width]_vars

(***************************************************************************)
(* "reset all to defaults" resets what later loads find too: neither the   *)
(* blob nor the URL brings old values back.                                *)
(***************************************************************************)
ResetSticks ==
    [][\A t \in Tabs :
          Reload(t) /\ resetLast'[t] => settings'[t] = Default]_vars
=============================================================================
