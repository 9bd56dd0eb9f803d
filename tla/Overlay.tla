------------------------------ MODULE Overlay ------------------------------
(***************************************************************************)
(* The overlay's configuration: overlay/source/config.hpp, main.cpp and    *)
(* the part of gui/ComboSet.hpp that sets a combination.  The overlay      *)
(* edits a configuration in memory, writes it to config.ini and tells the  *)
(* service, which is reduced to whether it runs and what it has loaded.    *)
(* The mappings are edited through list items, each of which has captured  *)
(* the index of its mapping.                                               *)
(*                                                                         *)
(* The overlay has one thread: callbacks of the list, of the editors that  *)
(* hide it, and update(), once a frame.  A callback that saves is a step   *)
(* for what it changes in memory and one for each call of saveConfig that  *)
(* another process can see the effect of; no callback begins before it     *)
(* has returned.                                                           *)
(***************************************************************************)
EXTENDS Naturals, Sequences, FiniteSets, SequencesExt

CONSTANTS Pads,      \* what section [pad] can say: switches, combinations, rates
          Masks,     \* the combinations of buttons, without 0
          Zero,      \* the combination of no button, 0x0
          Paths,     \* the macro files
          NoPath,    \* ""
          MaxMacros, \* bound: the mappings in memory, and the lines in the file
          Faults     \* what may fail: a subset of {"write", "resize", "service"}

ASSUME OverlayAssumption ==
  /\ Zero \notin Masks /\ NoPath \notin Paths
  /\ MaxMacros \in Nat \ {0}
  /\ Faults \subseteq {"write", "resize", "service"}

(* A line of section [macros].  A mapping in memory has an identity as     *)
(* well, which the code does not have: it tells which mapping an item is   *)
(* about, whatever is edited.                                              *)
Line == [key_mask: Masks \cup {Zero}, file_path: Paths \cup {NoPath}]
Ids == 1 .. 2 * MaxMacros

VARIABLES
  g_config,   \* the overlay's configuration: pad, macros
  items,      \* the list items of mappings that react, with the index of each
  gui,        \* the screen in front, with the index whose address it was given
  spc,        \* where saveConfig is
  connected,  \* g_serviceConnected
  session,    \* g_service is a session with the program that runs now
  program,    \* the service's process
  s_config,   \* what the service has loaded
  file,       \* config.ini: pad, macros, and the tail left of an older text
  broken,     \* an index past the end was used: anything may follow
  lapse       \* history: "unsaved" since a save was given up, "untold" since
              \* the service missed a change, "uncut" since it was started on
              \* a text whose tail was not cut off

overlay == <<g_config, items, gui, spc, connected, broken>>
service == <<session, program, s_config>>
vars == <<overlay, service, file, lapse>>

Main == [view |-> "main", i |-> 0]

-----------------------------------------------------------------------------
(* The file                                                                *)

(* The text ends where its size says: a tail that was not cut off is read  *)
(* like the rest.                                                          *)
Lines(f) == f.macros \o f.tail

(* The elements of seq that are in S, in their order.                      *)
Among(seq, S) ==
  FlattenSeq([n \in DOMAIN seq |-> IF seq[n] \in S THEN <<seq[n]>> ELSE <<>>])

AnyLine == Line
Complete == [key_mask: Masks, file_path: Paths]

(* What saveConfig writes of a mapping, and which ones.                    *)
ToLine(m) == [key_mask |-> m.key_mask, file_path |-> m.file_path]
Saved(macros) == Among([n \in DOMAIN macros |-> ToLine(macros[n])], Complete)

(* fsFileWrite from 0 leaves the end of a longer text.  It begins anywhere *)
(* in a line: with fewer digits the line names another combination, and    *)
(* without a "=" it is no line.                                            *)
Tails(old) ==
  {<<>>} \cup {[SubSeq(old, n, Len(old)) EXCEPT ![1].key_mask = m] :
               n \in DOMAIN old, m \in Masks \cup {Zero}}

(* The overlay's loadConfig keeps every line, the service's those with a   *)
(* path.                                                                   *)
Load(f) ==
  [pad |-> f.pad,
   macros |-> [n \in DOMAIN Lines(f) |->
                 [id |-> n, key_mask |-> Lines(f)[n].key_mask,
                  file_path |-> Lines(f)[n].file_path]]]
HasPath == [key_mask: Masks \cup {Zero}, file_path: Paths]
ServiceView(f) == [pad |-> f.pad, macros |-> Among(Lines(f), HasPath)]

(* The list, filled by initContent: one item for each mapping, nothing for *)
(* them while the service is not connected.                                *)
FilledWith(macros) == {[i |-> n, id |-> macros[n].id] : n \in DOMAIN macros}

(* Before the first mapping; a file that is not there counts as one with   *)
(* the defaults.                                                           *)
Init ==
  /\ \E pad \in Pads : file = [pad |-> pad, macros |-> <<>>, tail |-> <<>>]
  /\ g_config = Load(file)
  /\ items = {} /\ gui = Main /\ spc = "idle"
  /\ connected = FALSE /\ session = FALSE
  /\ program = "down" /\ s_config = ServiceView(file)
  /\ broken = FALSE /\ lapse = {}

-----------------------------------------------------------------------------
(* The program and the connection                                          *)

(* startProgram: launched only when it does not run.                       *)
StartProgram ==
  /\ spc = "idle" /\ gui = Main
  /\ program = "down"
  /\ program' = "booting"
  /\ UNCHANGED <<overlay, session, s_config, file, lapse>>

ReloadAppends == s_config' = [ServiceView(file) EXCEPT !.macros = s_config.macros \o @]

(* The service's loadConfig.                                               *)
Reload == s_config' = ServiceView(file)

(* padMacroInitialize, and the service is registered.                      *)
ProgramReady ==
  /\ program = "booting"
  /\ Reload
  /\ program' = "up"
  /\ lapse' = (lapse \ {"untold", "uncut"})
                \cup (IF file.tail = <<>> THEN {} ELSE {"uncut"})
  /\ UNCHANGED <<overlay, session, file>>

(* terminateProgram: CMD_EXIT, if the session is alive.                    *)
TerminateProgram ==
  /\ spc = "idle" /\ gui = Main
  /\ program = "up" /\ session
  /\ program' = "ending"
  /\ UNCHANGED <<overlay, session, s_config, file, lapse>>

(* The process is gone, told to exit or aborted, and its sessions with it. *)
ProgramEnds ==
  /\ program = "ending" \/ (program = "up" /\ "service" \in Faults)
  /\ program' = "down" /\ session' = FALSE
  /\ UNCHANGED <<overlay, s_config, file, lapse>>

(* GuiTest::update, which runs while its list is in front; smGetService    *)
(* waits for a program that is still starting.                             *)
Connect ==
  /\ spc = "idle" /\ gui = Main
  /\ ~connected /\ program = "up"
  /\ connected' = TRUE /\ session' = TRUE
  /\ items' = FilledWith(g_config.macros)
  /\ UNCHANGED <<g_config, gui, spc, broken, program, s_config, file, lapse>>

Disconnect ==
  /\ spc = "idle" /\ gui = Main
  /\ connected /\ program = "down"
  /\ connected' = FALSE
  /\ items' = {}
  /\ UNCHANGED <<g_config, gui, spc, broken, service, file, lapse>>

(* The overlay is closed and opened again: initServices, loadConfig.  With *)
(* the program starting or ending, the first update() settles it.          *)
Reopen ==
  /\ spc = "idle"
  /\ g_config' = Load(file)
  /\ connected' = (program = "up") /\ session' = connected'
  /\ items' = IF connected' THEN FilledWith(g_config'.macros) ELSE {}
  /\ gui' = Main
  /\ UNCHANGED <<spc, broken, program, s_config, file, lapse>>

-----------------------------------------------------------------------------
(* saveConfig                                                              *)

(* fsOpenSdCardFileSystem, fsFsOpenFile or fsFileWrite fails.              *)
GiveUpWriting ==
  /\ spc = "write" /\ "write" \in Faults
  /\ spc' = "idle" /\ gui' = Main
  /\ lapse' = lapse \cup {"unsaved"}
  /\ UNCHANGED <<g_config, items, connected, broken, service, file>>

(* fsFileWrite                                                             *)
WriteFile ==
  /\ spc = "write"
  /\ \E tail \in Tails(Lines(file)) :
       /\ Len(Saved(g_config.macros)) + Len(tail) <= MaxMacros
       /\ file' = [pad |-> g_config.pad, macros |-> Saved(g_config.macros),
                   tail |-> tail]
  /\ spc' = "resize"
  /\ UNCHANGED <<g_config, items, gui, connected, broken, service, lapse>>

TailKept == file' = file

(* fsFileSetSize                                                           *)
CutTail == file' = [file EXCEPT !.tail = <<>>]

(* The file is closed before the service is told.                          *)
ResizeFile ==
  /\ spc = "resize"
  /\ CutTail
  /\ spc' = "notify"
  /\ UNCHANGED <<g_config, items, gui, connected, broken, service, lapse>>

GiveUpResizing ==
  /\ spc = "resize" /\ "resize" \in Faults
  /\ spc' = "idle" /\ gui' = Main
  /\ lapse' = lapse \cup {"unsaved", "untold"}
  /\ UNCHANGED <<g_config, items, connected, broken, service, file>>

(* CMD_UPDATE_CONF, answered when the service has loaded the file.  An     *)
(* editor that has saved goes back to the list.                            *)
Notify ==
  /\ spc = "notify"
  /\ IF session /\ program = "up"
     THEN Reload /\ lapse' = {}
     ELSE lapse' = (lapse \ {"unsaved"}) \cup {"untold"} /\ UNCHANGED s_config
  /\ spc' = "idle" /\ gui' = Main
  /\ UNCHANGED <<g_config, items, connected, broken, session, program, file>>

-----------------------------------------------------------------------------
(* The list                                                                *)

Clickable == spc = "idle" /\ gui = Main /\ connected

(* The switches and rates of section [pad]; its combinations are set like  *)
(* those of the mappings, in ComboSet.                                     *)
EditPad(pad) ==
  /\ Clickable
  /\ g_config' = [g_config EXCEPT !.pad = pad]
  /\ spc' = "write"
  /\ UNCHANGED <<items, gui, connected, broken, service, file, lapse>>

FreshId == CHOOSE id \in Ids : id \notin {m.id : m \in ToSet(g_config.macros)}
                                        \cup {item.id : item \in items}

IndexPastEnd == Len(g_config'.macros) + 1

(* size() - 1 after the push_back, counted from 1.                         *)
NewIndex == Len(g_config'.macros)

(* "Add Mapping": nothing is saved yet.                                    *)
AddMapping ==
  /\ Clickable
  /\ Len(g_config.macros) < MaxMacros
  /\ g_config' = [g_config EXCEPT !.macros =
                    Append(@, [id |-> FreshId, key_mask |-> Zero, file_path |-> NoPath])]
  /\ items' = items \cup {[i |-> NewIndex, id |-> FreshId]}
  /\ UNCHANGED <<gui, spc, connected, broken, service, file, lapse>>

(* The listeners use &macros[i] or macros.begin() + i without a check.     *)
InRange(i) == i \in DOMAIN g_config.macros

UsePastEnd(item) ==
  /\ Clickable /\ ~InRange(item.i)
  /\ broken' = TRUE
  /\ UNCHANGED <<g_config, items, gui, spc, connected, service, file, lapse>>

(* A opens ComboSet with the address of the mask, Y GuiMacroFileList with  *)
(* that of the path.                                                       *)
OpenEditor(item, view) ==
  /\ Clickable /\ InRange(item.i)
  /\ gui' = [view |-> view, i |-> item.i]
  /\ UNCHANGED <<g_config, items, spc, connected, broken, service, file, lapse>>

(* X: the mapping at the captured index goes, and the item that was        *)
(* clicked; the other items keep theirs.                                   *)
DeleteMapping(item) ==
  /\ Clickable /\ InRange(item.i)
  /\ g_config' = [g_config EXCEPT !.macros = RemoveAt(@, item.i)]
  /\ items' = items \ {item}
  /\ spc' = "write"
  /\ UNCHANGED <<gui, connected, broken, service, file, lapse>>

(* The editors: any combination, that of no button included, or any file.  *)
SetCombination(mask) ==
  /\ spc = "idle" /\ gui.view = "combo"
  /\ g_config' = [g_config EXCEPT !.macros[gui.i].key_mask = mask]
  /\ spc' = "write"
  /\ UNCHANGED <<items, gui, connected, broken, service, file, lapse>>

PickFile(path) ==
  /\ spc = "idle" /\ gui.view = "file"
  /\ g_config' = [g_config EXCEPT !.macros[gui.i].file_path = path]
  /\ spc' = "write"
  /\ UNCHANGED <<items, gui, connected, broken, service, file, lapse>>

GoBack ==
  /\ spc = "idle" /\ gui # Main
  /\ gui' = Main
  /\ UNCHANGED <<g_config, items, spc, connected, broken, service, file, lapse>>

-----------------------------------------------------------------------------
ProgramStep == StartProgram \/ ProgramReady \/ TerminateProgram \/ ProgramEnds

SaveStep == GiveUpWriting \/ WriteFile \/ ResizeFile \/ GiveUpResizing \/ Notify

EditStep ==
  \/ \E pad \in Pads : EditPad(pad)
  \/ AddMapping
  \/ \E item \in items :
       \/ UsePastEnd(item) \/ DeleteMapping(item)
       \/ \E view \in {"combo", "file"} : OpenEditor(item, view)
  \/ \E mask \in Masks \cup {Zero} : SetCombination(mask)
  \/ \E path \in Paths : PickFile(path)

Next ==
  /\ ~broken
  /\ ProgramStep \/ Connect \/ Disconnect \/ Reopen \/ SaveStep \/ EditStep \/ GoBack

Spec == Init /\ [][Next]_vars

-----------------------------------------------------------------------------
Mapping == [id: Ids, key_mask: Masks \cup {Zero}, file_path: Paths \cup {NoPath}]

(* Type invariant.  What matters in it: the list has an item for each      *)
(* mapping in memory, whatever was added and deleted, an editor in front   *)
(* holds the address of a mapping, and at most one mapping has an identity.*)
TypeOK ==
  /\ g_config.pad \in Pads /\ g_config.macros \in Seq(Mapping)
  /\ \A m, n \in DOMAIN g_config.macros :
       g_config.macros[m].id = g_config.macros[n].id => m = n
  /\ items \subseteq [i: 1 .. MaxMacros, id: Ids]
  /\ Cardinality(items) = IF connected THEN Len(g_config.macros) ELSE 0
  /\ gui = Main \/ (gui.view \in {"combo", "file"} /\ InRange(gui.i))
  /\ spc \in {"idle", "write", "resize", "notify"}
  /\ connected \in BOOLEAN /\ session \in BOOLEAN /\ broken \in BOOLEAN
  /\ program \in {"down", "booting", "up", "ending"}
  /\ s_config.pad \in Pads /\ s_config.macros \in Seq(Line)
  /\ file.pad \in Pads /\ Lines(file) \in Seq(Line) /\ Len(Lines(file)) <= MaxMacros
  /\ lapse \subseteq {"unsaved", "untold", "uncut"}
  /\ session => program \in {"up", "ending"}

(* The file says what the overlay shows, except mappings without a         *)
(* combination or a file, whenever no save is under way and the last one   *)
(* was not given up; nothing of an older, longer text is left in it        *)
(* (config.hpp:224, "to prevent a residue of the old tail").               *)
FileSaysWhatIsShown ==
  spc = "idle" /\ "unsaved" \notin lapse =>
    /\ file.pad = g_config.pad
    /\ Lines(file) = Saved(g_config.macros)

(* The running service has loaded what the file says, over any number of   *)
(* edits, restarts of either process and lost sessions, unless a notice    *)
(* could not be sent since (overlay/README.md:8).                          *)
ServiceFollowsFile ==
  program = "up" /\ spc = "idle" /\ "untold" \notin lapse => s_config = ServiceView(file)

(* The service has no mapping without a combination, which would match     *)
(* every press (config.c:151), unless it was started on a text whose tail  *)
(* was not cut off, in mid-save or after a failure, and has loaded nothing *)
(* since.  That holds at any time, during a save and behind a dead session *)
(* too, although the overlay has such a mapping from the moment it is      *)
(* added until its combination is set, and other edits save in between     *)
(* (config.hpp:212).                                                       *)
NoEmptyCombination ==
  "uncut" \notin lapse =>
    \A n \in DOMAIN s_config.macros : s_config.macros[n].key_mask # Zero

(* overlay/README.md:7 has the user add, delete and select mappings: an    *)
(* item edits and deletes the mapping it shows.                            *)
ItemsEditTheirOwn ==
  \A item \in items : InRange(item.i) /\ g_config.macros[item.i].id = item.id
=============================================================================
