------------------------------ MODULE MacroFiles ------------------------------
(***************************************************************************)
(* The overlay's pages on macro files, and the store that is opened from   *)
(* them: GuiMacroFileList (overlay/source/main.cpp) lists the macro        *)
(* directory, deletes files and opens the editor or the store;             *)
(* GuiMacroFileView (gui/MacroFileView.hpp) shows the pairs of one file,   *)
(* changes them and writes them back.  All of it runs on the GUI thread;   *)
(* the store's download thread writes to the same directory.               *)
(*                                                                         *)
(* latest.bin is not listed, and other files of the service's recordings   *)
(* are taken to be there from the start.  What choosing a file does to the *)
(* configuration is in Overlay.                                            *)
(***************************************************************************)
EXTENDS Store, RunLength

CONSTANTS PadStates,  \* what a pair can hold
          MaxCount,   \* bound: the count of a pair, in a file or in the editor
          FileFaults  \* which of AllFileFaults may happen

(* delFile, and the two fopen calls of the editor.                         *)
AllFileFaults == {"delete", "read", "write"}

(* What the editor may leave of a file: its pairs with other states and    *)
(* counts, those with count 0 left out.                                    *)
Edited(c) ==
  {SelectSeq(pairs, LAMBDA pair : pair.count # 0) :
     pairs \in [DOMAIN c -> [state: PadStates, count: 0..MaxCount]]}

(* A file that can be read can hold whatever the editor makes of it.       *)
ASSUME MacroFilesAssumption ==
  /\ FileFaults \subseteq AllFileFaults
  /\ MaxCount \in Nat /\ Empty = <<>>
  /\ \A c \in Contents : c \in Seq([state: PadStates, count: 1..MaxCount])
  /\ \A c \in Contents : Edited(c) \subseteq Contents

VARIABLES
  page,       \* the page below the Stores: "none" (the mappings), "list", "editor"
  listed,     \* the files that the list has a live item for
  g_filePath, \* the editor's file
  shown,      \* its pairs as the editor shows them
  listening,  \* the editor's frame has its listener for Plus and Minus
  fresh       \* history: shown was read, and not edited since

editor == <<g_filePath, shown, listening, fresh>>
pages == <<page, listed, editor>>
storeVars == <<stores, closing, flags, event, downloading, param, resultQueue,
               dpc, target>>
allVars == <<vars, pages>>

FilesInit ==
  /\ Init
  /\ page = "none" /\ listed = {}
  /\ g_filePath = NoFile /\ shown = <<>>
  /\ listening = FALSE /\ fresh = FALSE

(* The page is on top, and the GUI thread not in ~Store.                   *)
On(p) == page = p /\ stores = <<>>

-----------------------------------------------------------------------------
(* The list                                                                *)

OpenList ==
  /\ On("none")
  /\ page' = "list"
  /\ listed' = {f \in Files : files[f] # NoFile}
  /\ UNCHANGED <<editor, files, crashed>>

(* B, or A on a file.                                                      *)
CloseList ==
  /\ On("list")
  /\ page' = "none" /\ listed' = {}
  /\ UNCHANGED <<editor, files, crashed>>

(* setClickListener([](u64){return false;})                                *)
LosesListener(f) == listed \ {f}

(* X: the item says "deleted" and loses its listener, even if the file     *)
(* could not be deleted.                                                   *)
DeleteFile(f) ==
  /\ On("list") /\ f \in listed
  /\ listed' = LosesListener(f)
  /\ \/ files' = [files EXCEPT ![f] = NoFile]
     \/ "delete" \in FileFaults /\ files' = files
  /\ UNCHANGED <<page, editor, crashed>>

-----------------------------------------------------------------------------
(* The editor                                                              *)

(* initContent: the list is cleared and filled again.  Without the file it *)
(* stays empty and the listener as it was.                                 *)
InitContent(content, before) ==
  \/ /\ content # NoFile
     /\ shown' = content /\ listening' = TRUE /\ fresh' = TRUE
  \/ /\ content = NoFile \/ "read" \in FileFaults
     /\ shown' = <<>> /\ listening' = before /\ fresh' = FALSE

(* Y on a file.                                                            *)
OpenEditor(f) ==
  /\ On("list") /\ f \in listed
  /\ page' = "editor" /\ g_filePath' = f
  /\ InitContent(files[f], FALSE)
  /\ UNCHANGED <<listed, files, crashed>>

Change(i, pair) ==
  /\ shown' = [shown EXCEPT ![i] = pair]
  /\ fresh' = FALSE
  /\ UNCHANGED <<page, listed, g_filePath, listening, files, crashed>>

(* X, left and right, and Y with the combination set in ComboSet.          *)
SetCount(i, c) ==
  /\ On("editor")
  /\ c = 0 \/ c = shown[i].count - 1 \/ (c = shown[i].count + 1 /\ c <= MaxCount)
  /\ Change(i, [shown[i] EXCEPT !.count = c])

SetCombination(i, s) ==
  /\ On("editor")
  /\ Change(i, [shown[i] EXCEPT !.state = s])

(* Minus                                                                   *)
Reload ==
  /\ On("editor") /\ listening
  /\ InitContent(files[g_filePath], listening)
  /\ UNCHANGED <<page, listed, g_filePath, files, crashed>>

WritesAll(pair) == TRUE

(* if (item->statePair.count == 0) continue                                *)
IsWritten(pair) == pair.count # 0

(* Plus                                                                    *)
Save ==
  /\ On("editor") /\ listening
  /\ files' = [files EXCEPT ![g_filePath] = SelectSeq(shown, IsWritten)]
  /\ InitContent(files'[g_filePath], listening)
  /\ UNCHANGED <<page, listed, g_filePath, crashed>>

(* fopen returns NULL, which is not checked.                               *)
SaveFails ==
  /\ "write" \in FileFaults
  /\ On("editor") /\ listening
  /\ crashed' = TRUE
  /\ UNCHANGED <<page, listed, editor, files>>

(* B: the page is destroyed; g_filePath means nothing until the next one.  *)
CloseEditor ==
  /\ On("editor")
  /\ page' = "list"
  /\ g_filePath' = NoFile /\ shown' = <<>>
  /\ listening' = FALSE /\ fresh' = FALSE
  /\ UNCHANGED <<listed, files, crashed>>

-----------------------------------------------------------------------------
PageStep ==
  \/ OpenList \/ CloseList \/ Reload \/ Save \/ SaveFails \/ CloseEditor
  \/ \E f \in Files : DeleteFile(f) \/ OpenEditor(f)
  \/ \E i \in DOMAIN shown : \/ \E c \in 0..MaxCount : SetCount(i, c)
                             \/ \E s \in PadStates : SetCombination(i, s)

(* The store is opened from the list (R).                                  *)
FilesNext ==
  /\ ~crashed
  /\ \/ PageStep /\ UNCHANGED storeVars
     \/ (StoreStep \/ (page = "list" /\ OpenStore)) /\ UNCHANGED pages

FilesSpec == FilesInit /\ [][FilesNext]_allVars /\ Fairness

-----------------------------------------------------------------------------
(* Type invariant of the pages and the store.  What matters in it: a listed *)
(* file exists, whatever was deleted or downloaded since it was listed, and *)
(* no file holds a pair with count 0 (MacroFilesAssumption has none in      *)
(* Contents), although the editor counts down to 0: the player would repeat *)
(* it until the int overflows (player.c:64-68).                             *)
FilesTypeOK ==
  /\ TypeOK
  /\ page \in {"none", "list", "editor"}
  /\ listed \subseteq Files
  /\ g_filePath \in Files \cup {NoFile} /\ listening \in BOOLEAN /\ fresh \in BOOLEAN
  /\ shown \in Seq([state: PadStates, count: 0..MaxCount])
  /\ stores # <<>> => page = "list"
  /\ \A f \in listed : files[f] # NoFile

(* The macro list and the editor never meet a file that is being written:  *)
(* once the last Store was left nothing is being downloaded, and what the  *)
(* editor shows and has not changed is what its file holds, a download     *)
(* that was begun before it was opened included.                           *)
PagesSeeWholeFiles ==
  /\ DownloadsOnlyInStore
  /\ page = "editor" /\ fresh => shown = files[g_filePath]
==============================================================================
