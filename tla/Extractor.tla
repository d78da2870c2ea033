------------------------------ MODULE Extractor ------------------------------
(***************************************************************************)
(* The installation of the firmware and of the Wine plugin by ltr_gui      *)
(* (qt_gui/plugin_install.cpp, extractor.cpp, wine_launcher.cpp): an       *)
(* installer is downloaded or chosen and run in a sandbox by Wine, a       *)
(* thread searches what it left for the files that are needed and writes   *)
(* them into a new directory, to which tir_firmware is linked when nothing *)
(* is missing. Wine, the download and the thread report by signals; Wine   *)
(* reports a crash as an error and then as an end, and a download that     *)
(* cannot be renamed first as failed and then as done.                     *)
(***************************************************************************)
EXTENDS Integers

CONSTANTS
  Installations,  \* how often each file can be in what is searched
  MaxDirs,        \* bound: how many directories are made
  MaxPresses      \* bound: how often buttons are pressed

Needed == {"fw", "data", "views"}

ExtractorAssumption ==
  /\ MaxDirs \in Nat /\ MaxPresses \in Nat
  /\ Installations \subseteq [Needed -> Nat]

NoFiles == [k \in Needed |-> 0]
None == 0

VARIABLES
  plugin,      \* PluginInstall::state
  shown,       \* the dialog that is shown
  buttons,     \* are those of TirFwExtractor enabled?
  mfcButtons,  \* are those of Mfc42uExtractor enabled?
  download,    \* Downloading: is it busy?
  wine,        \* WineLauncher of each dialog: idle, running, or crashed and about
               \* to report its end
  box,         \* the warning of wineFinished waits for the user
  stage,       \* Mfc42uExtractor::stage
  contents,    \* what is in each directory that was made
  destPath,    \* Extractor::destPath
  link,        \* where tir_firmware points to
  thread,      \* TirFwExtractThread
  queued,      \* its signal finished is on its way
  twice,       \* history: something reported twice
  presses

extVars ==
  <<plugin, shown, buttons, mfcButtons, download, wine, box, stage, contents,
    destPath, link, thread, queued, twice, presses>>

Dirs == DOMAIN contents
Things == Needed \cup {"nodata", "mfc"}

TypeOK ==
  /\ plugin \in {"DONE", "TIR_FW", "MFC", "LTR_W"}
  /\ shown \in {"none", "tir", "mfc"}
  /\ buttons \in BOOLEAN /\ mfcButtons \in BOOLEAN /\ download \in BOOLEAN
  /\ wine \in [{"tir", "mfc", "plugin"} -> {"idle", "running", "crashed"}]
  /\ box \in BOOLEAN /\ stage \in 0 .. 1
  /\ Dirs = 1 .. destPath /\ destPath \in 0 .. MaxDirs
  /\ \A d \in Dirs : contents[d] \subseteq Things
  /\ link \in {None} \cup Dirs
  /\ thread \in [running : BOOLEAN, quit : BOOLEAN, dest : {None} \cup Dirs,
                 left : [Needed -> Nat], found : SUBSET Needed,
                 everything : BOOLEAN]
  /\ queued \in BOOLEAN /\ twice \in BOOLEAN /\ presses \in 0 .. MaxPresses

Init ==
  /\ plugin = "DONE" /\ shown = "none" /\ buttons = TRUE /\ mfcButtons = TRUE
  /\ download = FALSE /\ wine = [w \in {"tir", "mfc", "plugin"} |-> "idle"]
  /\ box = FALSE /\ stage = 0
  /\ contents = [d \in 1 .. 0 |-> {}] /\ destPath = None /\ link = None
  /\ thread = [running |-> FALSE, quit |-> FALSE, dest |-> None, left |-> NoFiles,
               found |-> {}, everything |-> FALSE]
  /\ queued = FALSE /\ twice = FALSE /\ presses = 0

------------------------------------------------------------------------------
(* PluginInstall: one dialog after the other *)

\* isTirFirmwareInstalled: the files exist; a gamedata.txt that could not be
\* written does, too.
FirmwareInstalled(l, dirs) ==
  l # None /\ {"fw", "views"} \subseteq dirs[l] /\ dirs[l] \cap {"data", "nodata"} # {}
MfcInstalled == link # None /\ "mfc" \in contents[link]

\* installLinuxtrackWine: a prefix is chosen and its installer run.
InstallPlugin(w) == plugin' = "LTR_W" /\ shown' = "none" /\ wine' = [w EXCEPT !["plugin"] = "running"]

\* finished: whether it went well is not looked at, what is there is; w is the
\* state of Wine then.
Finished(l, dirs, w) ==
  \/ /\ plugin = "TIR_FW"
     /\ IF FirmwareInstalled(l, dirs)
        THEN plugin' = "MFC" /\ shown' = "mfc"
        ELSE plugin' = "TIR_FW" /\ shown' = "tir"
     /\ wine' = w
  \/ plugin = "MFC" /\ InstallPlugin(w)
  \/ plugin \in {"LTR_W", "DONE"} /\ plugin' = "DONE" /\ shown' = "none" /\ wine' = w

Rest == <<buttons, mfcButtons, download, box, stage, contents, destPath, link, thread, queued>>

\* The user presses a button.
Press == presses < MaxPresses /\ presses' = presses + 1

\* on_TIRFWButton_pressed
PressFirmware ==
  /\ ~box /\ Press /\ plugin' = "TIR_FW" /\ shown' = "tir"
  /\ UNCHANGED <<Rest, wine, twice>>

\* installWinePlugin
PressPlugin ==
  /\ ~box /\ Press
  /\ \/ ~FirmwareInstalled(link, contents) /\ plugin' = "TIR_FW" /\ shown' = "tir"
        /\ UNCHANGED wine
     \/ FirmwareInstalled(link, contents) /\ ~MfcInstalled
        /\ plugin' = "MFC" /\ shown' = "mfc" /\ UNCHANGED wine
     \/ FirmwareInstalled(link, contents) /\ MfcInstalled /\ InstallPlugin(wine)
  /\ UNCHANGED <<Rest, twice>>

\* The installer of the plugin ends. When it crashed a second report finds DONE.
PluginEnds ==
  /\ wine["plugin"] = "running"
  /\ plugin' = "DONE" /\ shown' = "none"
  /\ wine' = [wine EXCEPT !["plugin"] = "idle"]
  /\ UNCHANGED <<Rest, twice, presses>>

------------------------------------------------------------------------------
(* TirFwExtractor *)

\* Seeded fault: what an earlier search found still counts.
SearchKeepsFlags(dest) ==
  IF thread.running THEN UNCHANGED thread
  ELSE \E files \in Installations :
         thread' = [thread EXCEPT !.running = TRUE, !.quit = FALSE, !.dest = dest,
                                  !.left = files]

\* TirFwExtractThread::start and the beginning of run: ignored when it runs.
\* What is searched is what the directory happens to have.
Search(dest) ==
  IF thread.running THEN UNCHANGED thread
  ELSE \E files \in Installations :
         thread' = [thread EXCEPT !.running = TRUE, !.quit = FALSE, !.dest = dest,
                                  !.left = files, !.found = {}]

\* makeDestPath: a directory that is not there yet
MakeDestPath ==
  /\ destPath < MaxDirs /\ destPath' = destPath + 1
  /\ contents' = [d \in 1 .. destPath' |-> IF d \in Dirs THEN contents[d] ELSE {}]

Pressable == shown = "tir" /\ buttons /\ ~box /\ Press

\* on_BrowseInstaller_pressed, commenceExtraction; Wine runs one program at a time.
PressInstaller ==
  /\ Pressable /\ wine["tir"] # "crashed" /\ buttons' = FALSE
  /\ wine' = [wine EXCEPT !["tir"] = "running"]
  /\ UNCHANGED <<plugin, shown, mfcButtons, download, box, stage, contents, destPath,
                 link, thread, queued, twice>>

\* browseDirPressed
PressDirectory ==
  /\ Pressable /\ buttons' = FALSE
  /\ MakeDestPath /\ Search(destPath')
  /\ UNCHANGED <<plugin, shown, mfcButtons, download, wine, box, stage, link, queued, twice>>

\* on_DownloadButton_pressed, Downloading::download
PressDownload ==
  /\ Pressable /\ ~download /\ buttons' = FALSE /\ download' = TRUE
  /\ UNCHANGED <<plugin, shown, mfcButtons, wine, box, stage, contents, destPath, link,
                 thread, queued, twice>>

\* Downloading::finished, downloadDone: done, failed, or both when the file cannot
\* be renamed
DownloadDone ==
  /\ download /\ download' = FALSE
  /\ \/ wine' = [wine EXCEPT !["tir"] = "running"] /\ UNCHANGED <<buttons, twice>>
     \/ buttons' = TRUE /\ UNCHANGED <<wine, twice>>
     \/ buttons' = TRUE /\ wine' = [wine EXCEPT !["tir"] = "running"] /\ twice' = TRUE
  /\ UNCHANGED <<plugin, shown, mfcButtons, box, stage, contents, destPath, link, thread,
                 queued, presses>>

\* WineLauncher::error and finished, the first half of wineFinished: a failure is
\* shown first.
WineReports ==
  /\ wine["tir"] # "idle" /\ ~box
  /\ \E ok \in BOOLEAN, crash \in BOOLEAN :
       /\ crash => wine["tir"] = "running" /\ ~ok
       /\ wine' = [wine EXCEPT !["tir"] = IF crash THEN "crashed" ELSE "idle"]
       /\ twice' = (twice \/ wine["tir"] = "crashed")
       /\ IF ok
          THEN box' = box /\ MakeDestPath /\ Search(destPath')
          ELSE box' = TRUE /\ UNCHANGED <<contents, destPath, thread>>
  /\ UNCHANGED <<plugin, shown, buttons, mfcButtons, download, stage, link, queued, presses>>

\* wineFinished: the user has read the warning.
CloseBox ==
  /\ box /\ box' = FALSE /\ MakeDestPath /\ Search(destPath')
  /\ UNCHANGED <<plugin, shown, buttons, mfcButtons, download, wine, stage, link, queued,
                 twice, presses>>

\* findCandidates, analyzeFile: one file. A copy does not replace another, and
\* the last result counts.
Examine ==
  /\ thread.running /\ ~thread.quit /\ thread.found # Needed
  /\ \E k \in Needed, ok \in BOOLEAN :
       LET there == contents[thread.dest]
           put(things) == contents' = [contents EXCEPT ![thread.dest] = things]
           here(flags) == thread' = [thread EXCEPT !.left[k] = @ - 1, !.found = flags]
       IN /\ thread.left[k] > 0
          /\ \/ k = "fw" /\ ok /\ put(there \cup {k}) /\ here(thread.found \cup {k})
             \/ k = "fw" /\ ~ok /\ put(there) /\ here(thread.found)
             \/ /\ k = "views" /\ (ok => k \notin there)
                /\ put(IF ok THEN there \cup {k} ELSE there)
                /\ here(IF ok THEN thread.found \cup {k} ELSE thread.found \ {k})
             \/ /\ k = "data"
                /\ put((there \ {"data", "nodata"}) \cup {IF ok THEN "data" ELSE "nodata"})
                /\ here(IF ok THEN thread.found \cup {k} ELSE thread.found \ {k})
  /\ UNCHANGED <<plugin, shown, buttons, mfcButtons, download, wine, box, stage, destPath,
                 link, queued, twice, presses>>

\* run: everything was found, or there is no more to search.
SearchEnds ==
  /\ thread.running /\ (thread.quit \/ thread.found = Needed \/ thread.left = NoFiles)
  /\ thread' = [thread EXCEPT !.running = FALSE, !.left = NoFiles,
                              !.everything = thread.found = Needed]
  /\ queued' = TRUE
  /\ UNCHANGED <<plugin, shown, buttons, mfcButtons, download, wine, box, stage, contents,
                 destPath, link, twice, presses>>

\* threadFinished: it links the directory that was made last.
ThreadFinished ==
  /\ queued /\ queued' = FALSE /\ buttons' = TRUE
  /\ link' = IF thread.everything THEN destPath ELSE link
  /\ Finished(link', contents, wine)
  /\ UNCHANGED <<mfcButtons, download, box, stage, contents, destPath, thread, twice, presses>>

\* on_QuitButton_pressed: the thread is told to stop and waited for.
Quit ==
  /\ Pressable /\ shown' = "none"
  /\ thread' = IF thread.running
               THEN [thread EXCEPT !.running = FALSE, !.quit = TRUE, !.left = NoFiles,
                                   !.everything = thread.found = Needed]
               ELSE thread
  /\ queued' = (queued \/ thread.running)
  /\ UNCHANGED <<plugin, buttons, mfcButtons, download, wine, box, stage, contents,
                 destPath, link, twice>>

------------------------------------------------------------------------------
(* Mfc42uExtractor *)

\* on_BrowseInstaller_pressed, commenceExtraction
PressMfc ==
  /\ shown = "mfc" /\ mfcButtons /\ ~box /\ wine["mfc"] = "idle" /\ Press
  /\ mfcButtons' = FALSE /\ stage' = 0 /\ wine' = [wine EXCEPT !["mfc"] = "running"]
  /\ UNCHANGED <<plugin, shown, buttons, download, box, contents, destPath, link, thread,
                 queued, twice>>

\* wineFinished: first the package is taken apart, then what was in it; then the
\* library is copied to where tir_firmware points. That it fails is shown.
MfcReports ==
  /\ wine["mfc"] # "idle" /\ ~box
  /\ \/ /\ mfcButtons' = TRUE
        /\ wine' \in {[wine EXCEPT !["mfc"] = w] :
                        w \in {"idle"} \cup (IF wine["mfc"] = "running" THEN {"crashed"} ELSE {})}
        /\ UNCHANGED <<plugin, shown, stage, contents>>
     \/ /\ stage = 0 /\ stage' = 1 /\ wine' = [wine EXCEPT !["mfc"] = "running"]
        /\ UNCHANGED <<plugin, shown, mfcButtons, contents>>
     \/ /\ stage = 1 /\ stage' = 0 /\ mfcButtons' = TRUE
        /\ \/ link # None /\ contents' = [contents EXCEPT ![link] = @ \cup {"mfc"}]
           \/ UNCHANGED contents
        /\ Finished(link, contents', [wine EXCEPT !["mfc"] = "idle"])
  /\ UNCHANGED <<buttons, download, box, destPath, link, thread, queued, twice, presses>>

ExtNext ==
  \/ PressFirmware \/ PressPlugin \/ PluginEnds
  \/ PressInstaller \/ PressDirectory \/ PressDownload \/ DownloadDone
  \/ WineReports \/ CloseBox \/ Examine \/ SearchEnds \/ ThreadFinished \/ Quit
  \/ PressMfc \/ MfcReports

ExtSpec == Init /\ [][ExtNext]_extVars

------------------------------------------------------------------------------
\* The directory tir_firmware is linked to has everything that is needed, unless
\* Wine or the download reported twice (extractor.cpp:520-529).
LinkedIsComplete == link # None /\ ~twice => Needed \subseteq contents[link]
================================================================================
