-------------------------- MODULE Settings_proofs --------------------------
(***************************************************************************)
(* Proofs about the settings: their ranges, and what a reload brings back, *)
(* for any tabs, lists, numbers, blobs and fragments.                      *)
(***************************************************************************)
EXTENDS Settings, SequenceTheorems, TLAPS

Stored == RawSetting \cup {Absent, Garbage}

TypeInv ==
    /\ sandboxed \in BOOLEAN
    /\ storage \in [Tabs \cup {Shared} -> Stored]
    /\ fragment \in [Tabs -> RawFragment]
    /\ posted \in [Tabs -> Seq(RawFragment)]
    /\ settings \in [Tabs -> Setting]
    /\ dragging \in [Tabs -> BOOLEAN]
    /\ saved \in [Tabs -> Setting \cup {Absent}]
    /\ resetLast \in [Tabs -> BOOLEAN]

(* A top-level page posts nothing.                                         *)
PostsInSandbox == \A t \in Tabs : sandboxed \/ posted[t] = <<>>

(***************************************************************************)
(* The last fragment a tab wrote, on its URL or still on its way there, is *)
(* the mirror of what it saved last.                                       *)
(***************************************************************************)
LastWritten(t) == IF posted[t] = <<>> THEN fragment[t] ELSE posted[t][Len(posted[t])]

MirrorsSaved ==
    \A t \in Tabs :
        saved[t] # Absent /\ Mirror(saved[t]) # NoFragment => LastWritten(t) = Mirror(saved[t])

(* After a reset a tab's slot holds the defaults or nothing.               *)
ResetStored ==
    \A t \in Tabs :
        resetLast[t] => saved[t] = Default /\ storage[Slot(t)] \in {Absent, Default}

IInv == TypeInv /\ PostsInSandbox /\ MirrorsSaved /\ ResetStored

-----------------------------------------------------------------------------
(***************************************************************************)
(* What loading, normalising and mirroring yield.                          *)
(***************************************************************************)
LEMMA DefaultType == Default \in Setting /\ Setting \subseteq RawSetting /\ Absent \notin Setting
  <1>1. Default \in Setting
    BY SettingsAssumption DEF Default, Setting, ListTabs, SidebarWidths, TickRates
  <1>2. Setting \subseteq RawSetting
    BY DEF Setting, RawSetting, SidebarWidths, TickRates
  <1> QED
    BY <1>1, <1>2, StoredAssumption

(* Settings with the same fields are the same.                             *)
LEMMA SameSetting ==
    ASSUME NEW s \in RawSetting, NEW t \in RawSetting,
           s.nodes = t.nodes, s.width = t.width, s.tab = t.tab, s.tick = t.tick
    PROVE  s = t
  BY DEF RawSetting

(* Settings two fields of which are replaced.                              *)
WithNumbers(s, w, n) == [s EXCEPT !.width = w, !.tick = n]
WithMirrored(s, l, w) == [s EXCEPT !.nodes = l, !.width = w]

LEMMA WithNumbersFields ==
    ASSUME NEW s \in RawSetting, NEW w \in SidebarWidths, NEW n \in TickRates
    PROVE  LET now == WithNumbers(s, w, n)
           IN  /\ now \in Setting
               /\ now.nodes = s.nodes /\ now.width = w /\ now.tab = s.tab /\ now.tick = n
  BY DEF RawSetting, Setting, WithNumbers

LEMMA WithMirroredFields ==
    ASSUME NEW s \in Setting, NEW l \in Lists, NEW w \in SidebarWidths
    PROVE  LET now == WithMirrored(s, l, w)
           IN  /\ now \in Setting
               /\ now.nodes = l /\ now.width = w /\ now.tab = s.tab /\ now.tick = s.tick
  BY DEF Setting, WithMirrored

LEMMA ClampWidth ==
    ASSUME NEW x \in Int
    PROVE  LET w == Clamp(x, 220, 800)
           IN  w \in SidebarWidths /\ (x \in SidebarWidths => w = x)
  BY DEF Clamp, SidebarWidths

LEMMA ClampTick ==
    ASSUME NEW x \in Int
    PROVE  LET n == Clamp(x, 16, 200)
           IN  n \in TickRates /\ (x \in TickRates => n = x)
  BY DEF Clamp, TickRates

LEMMA NormalizeType ==
    ASSUME NEW s \in RawSetting
    PROVE  Normalize(s) \in Setting /\ (s \in Setting => Normalize(s) = s)
  <1> DEFINE w == Clamp(s.width, 220, 800)
             n == Clamp(s.tick, 16, 200)
  <1>1. s.width \in Int /\ s.tick \in Int
    BY DEF RawSetting
  <1>2. /\ w \in SidebarWidths /\ n \in TickRates
        /\ s.width \in SidebarWidths => w = s.width
        /\ s.tick \in TickRates => n = s.tick
    BY <1>1, ClampWidth, ClampTick
  <1>3. Normalize(s) = WithNumbers(s, w, n)
    BY DEF Normalize, WithNumbers
  <1> HIDE DEF w, n
  <1>4. Normalize(s) \in Setting
    BY <1>2, <1>3, WithNumbersFields
  <1>5. /\ Normalize(s).nodes = s.nodes /\ Normalize(s).tab = s.tab
        /\ Normalize(s).width = w /\ Normalize(s).tick = n
    BY <1>2, <1>3, WithNumbersFields
  <1>6. ASSUME s \in Setting
        PROVE  Normalize(s) = s
    <2>1. w = s.width /\ n = s.tick
      BY <1>2, <1>6 DEF Setting
    <2> QED
      BY <1>4, <1>5, <2>1, SameSetting, DefaultType
  <1> QED
    BY <1>4, <1>6

LEMMA WithFragmentType ==
    ASSUME NEW s \in Setting, NEW f \in RawFragment
    PROVE  /\ WithFragment(s, f) \in Setting
           /\ WithFragment(s, f).nodes = IF f.nodes = Absent THEN s.nodes ELSE f.nodes
           /\ WithFragment(s, f).width = IF f.width = Absent THEN s.width
                                         ELSE Clamp(f.width, 220, 800)
           /\ WithFragment(s, f).tab = s.tab /\ WithFragment(s, f).tick = s.tick
  <1> DEFINE w == IF f.width = Absent THEN s.width ELSE Clamp(f.width, 220, 800)
             l == IF f.nodes = Absent THEN s.nodes ELSE f.nodes
  <1>1. w \in SidebarWidths /\ l \in Lists
    BY DEF RawFragment, Clamp, Setting, SidebarWidths
  <1>2. WithFragment(s, f) = WithMirrored(s, l, w)
    BY DEF WithFragment, WithMirrored
  <1> HIDE DEF w, l
  <1>3. /\ WithFragment(s, f) \in Setting
        /\ WithFragment(s, f).nodes = l /\ WithFragment(s, f).width = w
        /\ WithFragment(s, f).tab = s.tab /\ WithFragment(s, f).tick = s.tick
    BY <1>1, <1>2, WithMirroredFields
  <1> QED
    BY <1>3 DEF w, l

LEMMA LoadedType ==
    ASSUME NEW blob \in Stored, NEW f \in RawFragment
    PROVE  Loaded(blob, f) \in Setting
  <1> DEFINE base == IF blob \in {Absent, Garbage} THEN Default ELSE Normalize(blob)
  <1>1. base \in Setting
    BY DefaultType, NormalizeType DEF Stored
  <1>2. Loaded(blob, f) = WithFragment(base, f)
    BY DEF Loaded
  <1> QED
    BY <1>1, <1>2, WithFragmentType

LEMMA MirrorType ==
    ASSUME NEW s \in Setting
    PROVE  /\ Mirror(s) \in RawFragment
           /\ Mirror(s).nodes = IF Mirrored(s.nodes) THEN s.nodes ELSE Absent
           /\ Mirror(s).width = IF s.width # Default.width THEN s.width ELSE Absent
           /\ s.nodes # Absent /\ s.width # Absent
           /\ Mirrored(s.nodes) \/ s.width # Default.width => Mirror(s) # NoFragment
  BY SettingsAssumption DEF Mirror, Setting, SidebarWidths, RawFragment, NoFragment

(* What a tab loads when its URL holds the mirror of s.                    *)
Remembered(s) ==
    [Default EXCEPT !.nodes = IF Mirrored(s.nodes) THEN s.nodes ELSE DefaultList,
                    !.width = s.width]

LEMMA LoadedMirror ==
    ASSUME NEW s \in Setting, NEW blob \in Stored
    PROVE  LET now == Loaded(blob, Mirror(s))
           IN  /\ Mirrored(s.nodes) => now.nodes = s.nodes
               /\ s.width # Default.width => now.width = s.width
               /\ blob \in {Absent, Default} => now = Remembered(s)
  <1> DEFINE base == IF blob \in {Absent, Garbage} THEN Default ELSE Normalize(blob)
             f == Mirror(s)
             now == Loaded(blob, f)
             list == IF Mirrored(s.nodes) THEN s.nodes ELSE DefaultList
  <1>1. base \in Setting /\ (blob \in {Absent, Default} => base = Default)
    BY DefaultType, NormalizeType DEF Stored
  <1>2. f \in RawFragment /\ now = WithFragment(base, f)
    BY MirrorType DEF Loaded
  <1>3. Clamp(s.width, 220, 800) = s.width
    BY DEF Setting, Clamp, SidebarWidths
  <1>4. /\ f.nodes = IF Mirrored(s.nodes) THEN s.nodes ELSE Absent
        /\ f.width = IF s.width # Default.width THEN s.width ELSE Absent
        /\ s.nodes # Absent /\ s.width # Absent
    BY MirrorType
  <1> HIDE DEF base, f, now
  <1>5. /\ now \in Setting
        /\ now.nodes = IF Mirrored(s.nodes) THEN s.nodes ELSE base.nodes
        /\ now.width = IF s.width # Default.width THEN s.width ELSE base.width
        /\ now.tab = base.tab /\ now.tick = base.tick
    BY <1>1, <1>2, <1>3, <1>4, WithFragmentType
  <1>6. Default.nodes = DefaultList
    BY DEF Default
  <1>7. list \in Lists /\ s.width \in SidebarWidths
    BY SettingsAssumption DEF Setting
  <1> HIDE DEF list
  <1>8. Remembered(s) = WithMirrored(Default, list, s.width)
    BY DEF Remembered, list, WithMirrored
  <1>9. /\ Remembered(s) \in Setting
        /\ Remembered(s).width = s.width /\ Remembered(s).nodes = list
        /\ Remembered(s).tab = Default.tab /\ Remembered(s).tick = Default.tick
    BY <1>7, <1>8, DefaultType, WithMirroredFields
  <1>10. ASSUME blob \in {Absent, Default}
         PROVE  now = Remembered(s)
    BY <1>1, <1>5, <1>6, <1>9, <1>10, SameSetting, DefaultType DEF list
  <1> QED
    BY <1>5, <1>10 DEF f, now

LEMMA MirrorDefault == Mirror(Default) # NoFragment /\ Mirrored(Default.nodes)
  BY DefaultType, MirrorType, SettingsAssumption DEF Default, Mirrored

-----------------------------------------------------------------------------
(***************************************************************************)
(* One step: the types, what is mirrored, what a reset left.               *)
(***************************************************************************)
LEMMA SlotType == \A t \in Tabs : Slot(t) \in Tabs \cup {Shared}
  BY DEF Slot

(* What saving does to everything but memory.                              *)
LEMMA SaveInv ==
    ASSUME IInv, NEW t \in Tabs, NEW s \in Setting,
           NEW before \in [Tabs \cup {Shared} -> Stored],
           Save(t, s, before), UNCHANGED sandboxed
    PROVE  /\ storage' \in [Tabs \cup {Shared} -> Stored]
           /\ fragment' \in [Tabs -> RawFragment]
           /\ posted' \in [Tabs -> Seq(RawFragment)]
           /\ saved' \in [Tabs -> Setting \cup {Absent}]
           /\ PostsInSandbox' /\ MirrorsSaved'
  <1>1. Mirror(s) \in RawFragment /\ s \in Stored /\ Slot(t) \in Tabs \cup {Shared}
    BY MirrorType, DefaultType, SlotType DEF Stored
  <1>2. storage' \in [Tabs \cup {Shared} -> Stored] /\ saved' = [saved EXCEPT ![t] = s]
    BY <1>1 DEF Save
  <1>3. saved' \in [Tabs -> Setting \cup {Absent}]
    BY <1>2 DEF IInv, TypeInv
  <1>4. CASE sandboxed
    <2>1. posted' = [posted EXCEPT ![t] = Append(posted[t], Mirror(s))] /\ fragment' = fragment
      BY <1>4 DEF Save
    <2>2. /\ Append(posted[t], Mirror(s)) \in Seq(RawFragment)
          /\ Append(posted[t], Mirror(s)) # <<>>
          /\ LET more == Append(posted[t], Mirror(s)) IN more[Len(more)] = Mirror(s)
      BY <1>1, AppendProperties DEF IInv, TypeInv
    <2>3. posted' \in [Tabs -> Seq(RawFragment)]
      BY <2>1, <2>2 DEF IInv, TypeInv
    <2>4. MirrorsSaved'
      BY <1>2, <2>1, <2>2 DEF IInv, TypeInv, MirrorsSaved, LastWritten
    <2> QED
      BY <1>2, <1>3, <1>4, <2>1, <2>3, <2>4 DEF IInv, TypeInv, PostsInSandbox
  <1>5. CASE ~sandboxed
    <2>1. PICK f \in Replaced(fragment[t], Mirror(s)) :
              fragment' = [fragment EXCEPT ![t] = f] /\ posted' = posted
      BY <1>5 DEF Save
    <2>2. f \in RawFragment /\ (Mirror(s) # NoFragment => f = Mirror(s))
      BY <1>1, <2>1 DEF Replaced, IInv, TypeInv
    <2>3. fragment' \in [Tabs -> RawFragment]
      BY <2>1, <2>2 DEF IInv, TypeInv
    <2>4. \A other \in Tabs : posted[other] = <<>>
      BY <1>5 DEF IInv, PostsInSandbox
    <2>5. MirrorsSaved'
      BY <1>2, <2>1, <2>2, <2>4 DEF IInv, TypeInv, MirrorsSaved, LastWritten
    <2> QED
      BY <1>2, <1>3, <2>1, <2>3, <2>5 DEF IInv, TypeInv, PostsInSandbox
  <1> QED
    BY <1>4, <1>5 DEF IInv, TypeInv

(* Whoever sees the slot of t and had reset has not reset last any more.   *)
LEMMA OthersReset ==
    ASSUME IInv, NEW t \in Tabs, UNCHANGED sandboxed,
           NEW other \in Tabs, other \notin Sees(t)
    PROVE  Slot(other) # Slot(t) /\ Slot(other)' = Slot(other) /\ other # t
  BY DEF Sees, Slot

LEMMA KeepInv ==
    ASSUME IInv, NEW t \in Tabs, NEW s \in Setting, Keep(t, s), UNCHANGED sandboxed,
           dragging' \in [Tabs -> BOOLEAN]
    PROVE  IInv'
  <1>1. Save(t, s, storage) /\ settings' = [settings EXCEPT ![t] = s]
        /\ resetLast' = [other \in Tabs |-> resetLast[other] /\ other \notin Sees(t)]
    BY DEF Keep
  <1>2. TypeInv' /\ PostsInSandbox' /\ MirrorsSaved'
    BY <1>1, SaveInv DEF IInv, TypeInv
  <1>3. ASSUME NEW other \in Tabs, resetLast'[other]
        PROVE  saved'[other] = Default /\ storage'[Slot(other)'] \in {Absent, Default}
    <2>1. resetLast[other] /\ other \notin Sees(t)
      BY <1>1, <1>3
    <2>2. saved'[other] = saved[other] /\ storage'[Slot(other)] = storage[Slot(other)]
      BY <1>1, <2>1, OthersReset, SlotType DEF Save, IInv, TypeInv
    <2> QED
      BY <2>1, <2>2, OthersReset DEF IInv, ResetStored
  <1> QED
    BY <1>2, <1>3 DEF IInv, ResetStored

LEMMA ResetInv ==
    ASSUME IInv, NEW t \in Tabs, Reset(t)
    PROVE  IInv'
  <1> DEFINE before == [storage EXCEPT ![Slot(t)] = Absent]
  <1>1. /\ Save(t, Default, before) /\ settings' = [settings EXCEPT ![t] = Default]
        /\ resetLast' = [other \in Tabs |-> other = t \/ (resetLast[other] /\ other \notin Sees(t))]
        /\ UNCHANGED <<sandboxed, dragging>>
    BY DEF Reset, Acts
  <1>2. before \in [Tabs \cup {Shared} -> Stored] /\ before[Slot(t)] = Absent
        /\ \A x \in Tabs \cup {Shared} : x # Slot(t) => before[x] = storage[x]
    BY SlotType DEF IInv, TypeInv, Stored
  <1> HIDE DEF before
  <1>3. TypeInv' /\ PostsInSandbox' /\ MirrorsSaved'
    BY <1>1, <1>2, SaveInv, DefaultType DEF IInv, TypeInv
  <1>4. /\ storage'[Slot(t)] \in {Absent, Default}
        /\ \A x \in Tabs \cup {Shared} : x # Slot(t) => storage'[x] = storage[x]
        /\ saved' = [saved EXCEPT ![t] = Default]
    BY <1>1, <1>2, SlotType DEF Save
  <1>5. ASSUME NEW other \in Tabs, resetLast'[other]
        PROVE  saved'[other] = Default /\ storage'[Slot(other)'] \in {Absent, Default}
    <2>1. CASE other = t
      BY <1>1, <1>4, <2>1 DEF IInv, TypeInv, Slot
    <2>2. CASE other # t
      <3>1. resetLast[other] /\ other \notin Sees(t)
        BY <1>1, <1>5, <2>2
      <3>2. saved'[other] = saved[other] /\ storage'[Slot(other)] = storage[Slot(other)]
        BY <1>1, <1>4, <3>1, OthersReset, SlotType DEF IInv, TypeInv
      <3> QED
        BY <1>1, <3>1, <3>2, OthersReset DEF IInv, ResetStored
    <2> QED
      BY <2>1, <2>2
  <1> QED
    BY <1>3, <1>5 DEF IInv, ResetStored

LEMMA ReloadInv ==
    ASSUME IInv, NEW t \in Tabs, Reload(t)
    PROVE  /\ IInv'
           /\ storage'[Slot(t)] \in Stored
           /\ sandboxed => storage'[Slot(t)] = Absent
           /\ ~sandboxed => storage'[Slot(t)] = storage[Slot(t)]
           /\ settings'[t] = Loaded(storage'[Slot(t)], fragment[t])
  <1>1. /\ storage' = Kept(t) /\ posted' = [posted EXCEPT ![t] = <<>>]
        /\ settings' = [settings EXCEPT ![t] = Loaded(storage'[Slot(t)], fragment[t])]
        /\ dragging' = [dragging EXCEPT ![t] = FALSE]
        /\ saved' = [saved EXCEPT ![t] = IF posted[t] = <<>> THEN saved[t] ELSE Absent]
        /\ resetLast' = [resetLast EXCEPT ![t] = resetLast[t] /\ posted[t] = <<>>]
        /\ UNCHANGED <<sandboxed, fragment>>
    BY DEF Reload, Acts
  <1>2. /\ storage' \in [Tabs \cup {Shared} -> Stored]
        /\ \A x \in Tabs \cup {Shared} : storage'[x] = storage[x] \/ storage'[x] = Absent
        /\ sandboxed => storage'[Slot(t)] = Absent
        /\ ~sandboxed => storage' = storage
    BY <1>1 DEF Kept, Slot, IInv, TypeInv, Stored
  <1>3. Loaded(storage'[Slot(t)], fragment[t]) \in Setting
    BY <1>2, LoadedType, SlotType DEF IInv, TypeInv
  <1>4. TypeInv'
    <2>1. posted' \in [Tabs -> Seq(RawFragment)]
      BY <1>1 DEF IInv, TypeInv
    <2>2. saved' \in [Tabs -> Setting \cup {Absent}] /\ settings' \in [Tabs -> Setting]
      BY <1>1, <1>3 DEF IInv, TypeInv
    <2>3. dragging' \in [Tabs -> BOOLEAN] /\ resetLast' \in [Tabs -> BOOLEAN]
      BY <1>1 DEF IInv, TypeInv
    <2> QED
      BY <1>1, <1>2, <2>1, <2>2, <2>3 DEF IInv, TypeInv
  <1>5. PostsInSandbox' /\ MirrorsSaved'
    BY <1>1 DEF IInv, TypeInv, PostsInSandbox, MirrorsSaved, LastWritten
  <1>6. ResetStored'
    <2> SUFFICES ASSUME NEW other \in Tabs, resetLast'[other]
                 PROVE  saved'[other] = Default /\ storage'[Slot(other)'] \in {Absent, Default}
      BY DEF ResetStored
    <2>1. resetLast[other] /\ saved'[other] = saved[other] /\ Slot(other)' = Slot(other)
      BY <1>1 DEF IInv, TypeInv, Slot
    <2> QED
      BY <1>2, <2>1, SlotType DEF IInv, ResetStored
  <1> QED
    BY <1>1, <1>2, <1>4, <1>5, <1>6, SlotType DEF IInv, TypeInv

LEMMA ShellInv ==
    ASSUME IInv, NEW t \in Tabs, ShellApplies(t)
    PROVE  IInv'
  <1>1. /\ posted[t] # <<>> /\ posted[t] \in Seq(RawFragment)
        /\ posted' = [posted EXCEPT ![t] = Tail(posted[t])]
        /\ UNCHANGED <<sandboxed, storage, settings, dragging, saved, resetLast>>
    BY DEF ShellApplies, page, IInv, TypeInv
  <1>2. PICK f \in Replaced(fragment[t], Head(posted[t])) : fragment' = [fragment EXCEPT ![t] = f]
    BY DEF ShellApplies
  <1>3. /\ Head(posted[t]) \in RawFragment /\ Tail(posted[t]) \in Seq(RawFragment)
        /\ Len(Tail(posted[t])) = Len(posted[t]) - 1 /\ Len(posted[t]) \in Nat
        /\ \A i \in 1 .. Len(Tail(posted[t])) : Tail(posted[t])[i] = posted[t][i + 1]
        /\ Head(posted[t]) = posted[t][1]
    BY <1>1, HeadTailProperties
  <1>4. f \in RawFragment /\ (Head(posted[t]) # NoFragment => f = Head(posted[t]))
    BY <1>2, <1>3 DEF Replaced, IInv, TypeInv
  <1>5. TypeInv'
    <2>1. fragment' \in [Tabs -> RawFragment] /\ posted' \in [Tabs -> Seq(RawFragment)]
      BY <1>1, <1>2, <1>3, <1>4 DEF IInv, TypeInv
    <2> QED
      BY <1>1, <2>1 DEF IInv, TypeInv
  <1>6. sandboxed
    BY <1>1 DEF IInv, PostsInSandbox
  <1>7. MirrorsSaved'
    <2> SUFFICES ASSUME NEW other \in Tabs, saved[other] # Absent,
                        Mirror(saved[other]) # NoFragment
                 PROVE  LastWritten(other)' = Mirror(saved[other])
      BY <1>1 DEF MirrorsSaved
    <2>1. LastWritten(other) = Mirror(saved[other])
      BY DEF IInv, MirrorsSaved
    <2>2. CASE other # t
      BY <1>1, <1>2, <2>1, <2>2 DEF IInv, TypeInv, LastWritten
    <2>3. CASE other = t /\ Tail(posted[t]) = <<>>
      <3>1. Len(posted[t]) = 1
        <4> DEFINE tail == Tail(posted[t])
        <4>1. tail \in Seq(RawFragment) /\ Len(tail) = Len(posted[t]) - 1 /\ Len(posted[t]) \in Nat
          BY <1>3
        <4>2. tail = <<>>
          BY <2>3
        <4> HIDE DEF tail
        <4>3. Len(tail) = 0
          BY <4>2
        <4> QED
          BY <4>1, <4>3
      <3>2. Head(posted[t]) = Mirror(saved[t])
        BY <1>1, <1>3, <2>1, <2>3, <3>1 DEF LastWritten
      <3>3. fragment'[t] = Mirror(saved[t]) /\ posted'[t] = <<>>
        BY <1>1, <1>2, <1>4, <2>3, <3>2 DEF IInv, TypeInv
      <3> QED
        BY <2>3, <3>3 DEF LastWritten
    <2>4. CASE other = t /\ Tail(posted[t]) # <<>>
      <3>1. Len(posted[t]) > 1
        BY <1>1, <1>3, <2>4
      <3>2. posted'[t] = Tail(posted[t])
        BY <1>1 DEF IInv, TypeInv
      <3>3. Tail(posted[t])[Len(Tail(posted[t]))] = posted[t][Len(posted[t])]
        BY <1>3, <3>1
      <3> QED
        BY <1>1, <2>1, <2>4, <3>2, <3>3 DEF LastWritten
    <2> QED
      BY <2>2, <2>3, <2>4
  <1>8. ResetStored' /\ PostsInSandbox'
    BY <1>1, <1>6 DEF IInv, ResetStored, Slot, PostsInSandbox
  <1> QED
    BY <1>5, <1>7, <1>8 DEF IInv

LEMMA EditInv ==
    ASSUME IInv, NEW t \in Tabs,
           (\E blob \in Blobs : EditBlob(t, blob)) \/ (\E f \in Fragments : EditFragment(t, f))
    PROVE  IInv'
  <1>1. ASSUME NEW blob \in Blobs, EditBlob(t, blob)
        PROVE  IInv'
    <2>1. /\ storage' = [storage EXCEPT ![Slot(t)] = blob]
          /\ resetLast' = [other \in Tabs |-> resetLast[other] /\ other \notin Sees(t)]
          /\ UNCHANGED <<sandboxed, fragment, posted, settings, dragging, saved>>
      BY <1>1 DEF EditBlob, Acts, page
    <2>2. blob \in Stored
      BY StoredAssumption DEF Stored
    <2>3. storage' \in [Tabs \cup {Shared} -> Stored] /\ resetLast' \in [Tabs -> BOOLEAN]
      BY <2>1, <2>2, SlotType DEF IInv, TypeInv
    <2>4. TypeInv' /\ PostsInSandbox' /\ MirrorsSaved'
      BY <2>1, <2>3 DEF IInv, TypeInv, PostsInSandbox, MirrorsSaved, LastWritten
    <2>5. ASSUME NEW other \in Tabs, resetLast'[other]
          PROVE  saved'[other] = Default /\ storage'[Slot(other)'] \in {Absent, Default}
      <3>1. resetLast[other] /\ other \notin Sees(t)
        BY <2>1, <2>5
      <3>2. storage'[Slot(other)] = storage[Slot(other)]
        BY <2>1, <3>1, OthersReset, SlotType DEF IInv, TypeInv
      <3> QED
        BY <2>1, <3>1, <3>2, OthersReset DEF IInv, ResetStored
    <2> QED
      BY <2>4, <2>5 DEF IInv, ResetStored
  <1>2. ASSUME NEW f \in Fragments, EditFragment(t, f)
        PROVE  IInv'
    <2>1. /\ fragment' = [fragment EXCEPT ![t] = f]
          /\ saved' = [saved EXCEPT ![t] = Absent]
          /\ resetLast' = [resetLast EXCEPT ![t] = FALSE]
          /\ UNCHANGED <<sandboxed, storage, posted, settings, dragging>>
      BY <1>2 DEF EditFragment, Acts, page
    <2>2. fragment' \in [Tabs -> RawFragment]
      BY <2>1, StoredAssumption DEF IInv, TypeInv
    <2>3. saved' \in [Tabs -> Setting \cup {Absent}] /\ resetLast' \in [Tabs -> BOOLEAN]
      BY <2>1 DEF IInv, TypeInv
    <2>4. TypeInv' /\ PostsInSandbox'
      BY <2>1, <2>2, <2>3 DEF IInv, TypeInv, PostsInSandbox
    <2>5. MirrorsSaved' /\ ResetStored'
      BY <2>1 DEF IInv, TypeInv, MirrorsSaved, LastWritten, ResetStored, Slot
    <2> QED
      BY <2>4, <2>5 DEF IInv
  <1> QED
    BY <1>1, <1>2

(* The user's steps at the sidebar and in the drawer.                      *)
LEMMA UserInv ==
    ASSUME IInv, NEW t \in Tabs,
           \/ DragStart(t) \/ DragEnd(t) \/ \E x \in Widths : DragMove(t, x)
           \/ \E tab \in ListTabs : ChooseTab(t, tab)
           \/ \E w \in Widths : Edit(t, [settings[t] EXCEPT !.width = w])
           \/ \E n \in Ticks : Edit(t, [settings[t] EXCEPT !.tick = n])
    PROVE  IInv'
  <1>0. settings[t] \in Setting /\ settings[t] \in RawSetting /\ Widths \cup Ticks \subseteq Int
    BY DefaultType, SettingsAssumption DEF IInv, TypeInv
  <1>1. CASE DragStart(t)
    BY <1>1 DEF DragStart, Acts, IInv, TypeInv, PostsInSandbox, MirrorsSaved, LastWritten,
                ResetStored, Slot
  <1>2. CASE DragEnd(t)
    <2>1. Keep(t, settings[t]) /\ UNCHANGED sandboxed /\ dragging' \in [Tabs -> BOOLEAN]
      BY <1>2 DEF DragEnd, Acts, IInv, TypeInv
    <2> QED
      BY <1>0, <2>1, KeepInv
  <1>3. ASSUME NEW x \in Widths, DragMove(t, x)
        PROVE  IInv'
    <2>1. Clamp(x, 220, 800) \in SidebarWidths
      BY <1>0 DEF Clamp, SidebarWidths
    <2>2. [settings[t] EXCEPT !.width = Clamp(x, 220, 800)] \in Setting
      BY <1>0, <2>1 DEF Setting
    <2>3. settings' \in [Tabs -> Setting]
      BY <1>3, <2>2 DEF DragMove, IInv, TypeInv
    <2> QED
      BY <1>3, <2>3 DEF DragMove, Acts, IInv, TypeInv, PostsInSandbox, MirrorsSaved,
                        LastWritten, ResetStored, Slot
  <1>4. ASSUME NEW tab \in ListTabs, ChooseTab(t, tab)
        PROVE  IInv'
    <2>1. [settings[t] EXCEPT !.tab = tab] \in Setting
      BY <1>0 DEF Setting
    <2>2. Keep(t, [settings[t] EXCEPT !.tab = tab]) /\ UNCHANGED <<sandboxed, dragging>>
      BY <1>4 DEF ChooseTab, Acts
    <2> QED
      BY <2>1, <2>2, KeepInv DEF IInv, TypeInv
  <1>5. ASSUME NEW s \in RawSetting, Edit(t, s)
        PROVE  IInv'
    BY <1>5, NormalizeType, KeepInv DEF Edit, Acts, IInv, TypeInv
  <1>6. /\ \A w \in Widths : [settings[t] EXCEPT !.width = w] \in RawSetting
        /\ \A n \in Ticks : [settings[t] EXCEPT !.tick = n] \in RawSetting
    BY <1>0 DEF RawSetting
  <1> QED
    BY <1>1, <1>2, <1>3, <1>4, <1>5, <1>6

LEMMA InitInv == Init => IInv
  <1> SUFFICES ASSUME Init PROVE IInv
    OBVIOUS
  <1>1. PICK blob \in Blobs :
            storage = [x \in Tabs \cup {Shared} |-> IF sandboxed THEN Absent ELSE blob]
    BY DEF Init
  <1>2. storage \in [Tabs \cup {Shared} -> Stored]
    BY <1>1, StoredAssumption DEF Stored
  <1>3. fragment \in [Tabs -> RawFragment]
    BY StoredAssumption DEF Init
  <1>4. settings \in [Tabs -> Setting]
    BY <1>2, <1>3, LoadedType, SlotType DEF Init
  <1>5. posted \in [Tabs -> Seq(RawFragment)]
    BY DEF Init
  <1> QED
    BY <1>2, <1>3, <1>4, <1>5
    DEF Init, IInv, TypeInv, PostsInSandbox, MirrorsSaved, ResetStored

LEMMA NextInv == IInv /\ [Next]_vars => IInv'
  <1> SUFFICES ASSUME IInv, [Next]_vars PROVE IInv'
    OBVIOUS
  <1>1. CASE UNCHANGED vars
    BY <1>1 DEF vars, page, IInv, TypeInv, PostsInSandbox, MirrorsSaved, LastWritten,
                ResetStored, Slot
  <1>2. CASE Next
    BY <1>2, UserInv, ResetInv, ReloadInv, ShellInv, EditInv DEF Next
  <1> QED
    BY <1>1, <1>2

-----------------------------------------------------------------------------
(***************************************************************************)
(* The theorems.                                                           *)
(***************************************************************************)

(* Whatever is stored, written in the URL, typed or dragged, the settings  *)
(* App runs with are in their ranges.                                      *)
THEOREM SettingsInRange == Spec => []InRange
  <1>1. IInv => InRange
    BY DEF IInv, TypeInv, PostsInSandbox, InRange
  <1> QED
    BY InitInv, NextInv, <1>1, PTL DEF Spec

(* Within the shell a reload brings back the mirrored fields of what was   *)
(* saved last, if the shell got to the message.                            *)
THEOREM ReloadRemembers == Spec => SandboxRemembers
  <1>1. ASSUME IInv, NEW t \in Tabs, Reload(t), sandboxed, saved'[t] # Absent,
               Mirror(saved[t]) # NoFragment
        PROVE  settings'[t] = Remembered(saved[t])
    <2>1. posted[t] = <<>> /\ saved[t] # Absent
      BY <1>1 DEF Reload, IInv, TypeInv
    <2>2. fragment[t] = Mirror(saved[t]) /\ saved[t] \in Setting
      BY <1>1, <2>1 DEF IInv, TypeInv, MirrorsSaved, LastWritten
    <2>3. settings'[t] = Loaded(Absent, fragment[t]) /\ Absent \in Stored
      BY <1>1, ReloadInv DEF Stored
    <2> QED
      BY <2>2, <2>3, LoadedMirror
  <1>2. IInv /\ [Next]_vars =>
          [\A t \in Tabs :
              Reload(t) /\ sandboxed /\ saved'[t] # Absent /\ Mirror(saved[t]) # NoFragment =>
                  settings'[t] =
                      [Default EXCEPT !.nodes = IF Mirrored(saved[t].nodes) THEN saved[t].nodes
                                                ELSE DefaultList,
                                      !.width = saved[t].width]]_vars
    BY <1>1 DEF Remembered
  <1> QED
    BY InitInv, NextInv, <1>2, PTL DEF Spec, SandboxRemembers

(* Tabs share a blob that each writes as a whole, yet a reload of one      *)
(* brings back its own list of nodes and its own width.                    *)
THEOREM ReloadKeepsOwn == Spec => TabKeepsOwn
  <1>1. ASSUME IInv, NEW t \in Tabs, Reload(t), ~sandboxed, saved[t] # Absent
        PROVE  /\ Mirrored(saved[t].nodes) => settings'[t].nodes = saved[t].nodes
               /\ saved[t].width # Default.width => settings'[t].width = saved[t].width
    <2>1. saved[t] \in Setting /\ posted[t] = <<>>
      BY <1>1 DEF IInv, TypeInv, PostsInSandbox
    <2>2. CASE Mirror(saved[t]) = NoFragment
      BY <2>1, <2>2, MirrorType
    <2>3. CASE Mirror(saved[t]) # NoFragment
      <3>1. fragment[t] = Mirror(saved[t])
        BY <1>1, <2>1, <2>3 DEF IInv, MirrorsSaved, LastWritten
      <3>2. PICK blob \in Stored : settings'[t] = Loaded(blob, Mirror(saved[t]))
        BY <1>1, <3>1, ReloadInv
      <3> QED
        BY <2>1, <3>2, LoadedMirror
    <2> QED
      BY <2>2, <2>3
  <1>2. IInv /\ [Next]_vars =>
          [\A t \in Tabs :
              Reload(t) /\ ~sandboxed /\ saved[t] # Absent =>
                  /\ Mirrored(saved[t].nodes) => settings'[t].nodes = saved[t].nodes
                  /\ saved[t].width # Default.width => settings'[t].width = saved[t].width]_vars
    BY <1>1
  <1> QED
    BY InitInv, NextInv, <1>2, PTL DEF Spec, TabKeepsOwn

(* After "reset all to defaults" neither the blob nor the URL brings old   *)
(* values back.                                                            *)
THEOREM ResetIsLasting == Spec => ResetSticks
  <1>1. ASSUME IInv, NEW t \in Tabs, Reload(t), resetLast'[t]
        PROVE  settings'[t] = Default
    <2>1. resetLast[t] /\ posted[t] = <<>>
      BY <1>1 DEF Reload, IInv, TypeInv
    <2>2. saved[t] = Default /\ storage[Slot(t)] \in {Absent, Default}
      BY <1>1, <2>1 DEF IInv, ResetStored
    <2>3. fragment[t] = Mirror(Default)
      BY <1>1, <2>1, <2>2, DefaultType, MirrorDefault DEF IInv, MirrorsSaved, LastWritten
    <2>4. /\ storage'[Slot(t)] \in {Absent, Default} /\ storage'[Slot(t)] \in Stored
          /\ settings'[t] = Loaded(storage'[Slot(t)], Mirror(Default))
      BY <1>1, <2>2, <2>3, ReloadInv DEF IInv, TypeInv
    <2>5. settings'[t] = Remembered(Default)
      BY <2>4, DefaultType, LoadedMirror
    <2>6. Remembered(Default) = WithMirrored(Default, Default.nodes, Default.width)
      BY MirrorDefault DEF Remembered, WithMirrored
    <2>7. Default.nodes \in Lists /\ Default.width \in SidebarWidths
      BY DefaultType DEF Setting
    <2> QED
      BY <2>5, <2>6, <2>7, WithMirroredFields, DefaultType, SameSetting
  <1>2. IInv /\ [Next]_vars =>
          [\A t \in Tabs : Reload(t) /\ resetLast'[t] => settings'[t] = Default]_vars
    BY <1>1
  <1> QED
    BY InitInv, NextInv, <1>2, PTL DEF Spec, ResetSticks
=============================================================================
