----------------------------- MODULE Lifecycle ------------------------------
(***************************************************************************)
(* The plugin from one start of the game to the next: the loader's update, *)
(* the construction, the session with its saves, the orderly exit, and a   *)
(* crash anywhere in between.  Its files survive (Storage, Downloads);     *)
(* everything else is lost.                                                *)
(***************************************************************************)
EXTENDS Storage, Downloads

VARIABLE phase

vars == <<phase, storage, downloads>>

\* Inside the loader; with the plugin constructed; in a writing of main.mpk;
\* and without a plugin that works.
Loader == {"checking", "updating", "renaming", "copying", "noting", "loading"}
Session == {"on", "saving"}
Saving == {"creating", "saving", "closing"}
Useless == {"failed", "without"}

TypeOK ==
  /\ phase \in {"off", "creating", "leaving", "closing"} \cup Loader \cup Session \cup Useless
  /\ ConfigurationTypeOK /\ StatisticsTypeOK /\ DownloadsTypeOK

Init == phase = "off" /\ ConfigurationInit /\ StatisticsInit /\ DownloadsInit

-----------------------------------------------------------------------------
(* The loader's thread                                                     *)

\* loader_t looks for the library by its version, which one that is not whole may
\* lack.
Start ==
  /\ phase = "off"
  /\ \/ plugin_file # "page" /\ phase' = "checking"
     \/ plugin_file \notin Loadable /\ phase' = "without"
  /\ UNCHANGED <<storage, downloads>>

\* check_updates: nothing newer, no answer, or the user declines
NoUpdate ==
  /\ phase = "checking" /\ phase' = "loading" /\ UNCHANGED <<storage, downloads>>

\* What follows a false of download_file
UnreachableGoesOn == "renaming"                                  \* mutant
Unreachable == "loading"

AcceptUpdate ==
  /\ phase = "checking" /\ plugin_file = "old"
  /\ \/ phase' = "updating" /\ BeginDownload
     \/ phase' = Unreachable /\ UNCHANGED updater
  /\ UNCHANGED <<storage, font_files, parsed_information, rendering>>

DownloadEnds ==
  /\ phase = "updating" /\ phase' = "renaming" /\ EndDownload
  /\ UNCHANGED <<storage, font_files, parsed_information, rendering>>

\* After update_plugin, save_release_information truncates its file, unless it
\* cannot be opened.
NoNote == phase' = "loading" /\ UNCHANGED release_file
BeginNote == phase' = "noting" /\ release_file' = "cut"
Updated == BeginNote \/ NoNote

\* update_plugin returns false: no note.
Failed == NoNote /\ UNCHANGED <<plugin_file, temp_file, one_volume>>

Rename ==
  /\ phase = "renaming"
  /\ \/ Failed
     \/ one_volume /\ Moved /\ Updated
     \/ ~one_volume /\ phase' = "copying" /\ BeginCopy
  /\ UNCHANGED <<storage, font_files, parsed_information, rendering>>

EndCopy ==
  /\ phase = "copying"
  /\ \/ Failed
     \/ Copied /\ Updated
  /\ UNCHANGED <<storage, font_files, parsed_information, rendering>>

Noted ==
  /\ phase = "noting" /\ phase' = "loading" /\ release_file' = "whole"
  /\ UNCHANGED <<storage, plugin_file, temp_file, one_volume, font_files, parsed_information,
                 rendering>>

-----------------------------------------------------------------------------
(* The construction of the plugin                                          *)

\* The gui's fonts and the statistics, once the configuration stands
Construct == /\ phase' = "on" /\ FindMissing /\ ReadStatistics
             /\ UNCHANGED <<clock, updater, parsed_information, rendering>>

\* The constructor of the configuration, by what its file is
LoadPlugin ==
  /\ phase = "loading" /\ plugin_file \in Loadable /\ main_file \notin {None, Cut}
  /\ main_json' = Merged(main_file) /\ UNCHANGED <<main_file, saved, meant>>
  /\ Construct

CreateConfiguration ==
  /\ phase = "loading" /\ plugin_file \in Loadable /\ main_file = None
  /\ phase' = "creating" /\ main_file' = Cut
  /\ main_json' = Embedded /\ UNCHANGED <<saved, meant>>
  /\ UNCHANGED <<statistics, clock, downloads>>

Created == phase = "creating" /\ Save /\ Construct

\* LoadLibrary refuses what is no whole library; from_msgpack throws on one, and the gui is
\* constructed without a configuration.
LoadFails ==
  /\ phase = "loading"
  /\ \/ plugin_file \notin Loadable /\ phase' = "without"
     \/ plugin_file \in Loadable /\ main_file = Cut /\ phase' = "failed"
  /\ UNCHANGED <<storage, downloads>>

-----------------------------------------------------------------------------
(* The session                                                             *)

\* d3d9_present: the fonts are assigned and the windows created; the one about
\* the release throws on a cut file, which ends the game.
InitializeRender ==
  /\ phase = "on" /\ ~rendering /\ CanAssignFonts
  /\ IF release_file = "cut"
     THEN phase' = "failed" /\ UNCHANGED <<rendering, parsed_information>>
     ELSE /\ rendering' = TRUE /\ parsed_information' = (release_file = "whole")
          /\ UNCHANGED phase
  /\ UNCHANGED <<storage, updater, font_files>>

\* configuration->save(5min), from the main loop
BeginSave ==
  /\ phase = "on" /\ main_file # main_json            \* else nothing changes
  /\ phase' = "saving" /\ Truncate
  /\ UNCHANGED <<statistics, clock, downloads>>

EndSave ==
  /\ phase = "saving" /\ phase' = "on" /\ Save /\ UNCHANGED <<statistics, clock, downloads>>

\* The exit of the game destroys the statistics, then the configuration, each
\* of which writes its file.
Leave ==
  /\ phase = "on" /\ phase' = "leaving" /\ StopFonts
  /\ statistics_file' = <<>> /\ written' = date_entries
  /\ UNCHANGED <<configuration, date_entries, counted, clock, updater>>

StatisticsWritten ==
  /\ phase = "leaving" /\ phase' = "closing"
  /\ statistics_file' = Written(date_entries)
  /\ Truncate /\ UNCHANGED <<date_entries, written, counted, clock, downloads>>

Left ==
  /\ phase = "closing" /\ phase' = "off"
  /\ main_file' = main_json /\ saved' = main_json /\ main_json' = Embedded
  /\ date_entries' = <<>>
  /\ UNCHANGED <<meant, statistics_file, written, counted, clock, downloads>>

-----------------------------------------------------------------------------
(* The game dies: with everything in memory, and the rest of what was being *)
(* written                                                                  *)

Crash ==
  /\ phase # "off" /\ phase' = "off" /\ StopFonts
  /\ IF phase = "leaving"
     THEN \E n \in 0..Len(Written(date_entries)) :
            statistics_file' = SubSeq(Written(date_entries), 1, n)
     ELSE UNCHANGED statistics_file
  /\ counted' = IF statistics_file' \in {None, Written(written)}
                THEN written ELSE Read(statistics_file')
  /\ meant' = saved
  /\ main_json' = Embedded /\ date_entries' = <<>>
  /\ UNCHANGED <<main_file, saved, written, clock, updater>>

\* The user deletes a configuration with which the plugin does not start.
DeleteConfiguration ==
  /\ phase = "off" /\ main_file = Cut
  /\ main_file' = None /\ saved' = Embedded /\ meant' = Embedded
  /\ UNCHANGED <<phase, main_json, statistics, clock, downloads>>

-----------------------------------------------------------------------------
Sessions ==
  \/ Start \/ NoUpdate \/ LoadPlugin \/ CreateConfiguration \/ Created \/ LoadFails
  \/ InitializeRender \/ Leave \/ StatisticsWritten \/ Left \/ Crash

Configures ==
  \/ BeginSave \/ EndSave \/ DeleteConfiguration
  \/ /\ phase = "on" /\ UNCHANGED <<phase, downloads>>
     /\ \E k \in Keys, v \in Values : SetOption(k, v)

CountsTime ==
  /\ phase = "on" /\ UNCHANGED <<phase, downloads>>
  /\ HourPasses \/ \E types \in Together : Counts(types)

Fetches ==
  \/ AcceptUpdate \/ DownloadEnds \/ Rename \/ EndCopy \/ Noted
  \/ /\ phase \in Session /\ UNCHANGED <<phase, storage>>
     /\ BeginFont \/ EndFont \/ CloseInformation

Next == Sessions \/ Configures \/ CountsTime \/ Fetches

Spec == Init /\ [][Next]_vars

-----------------------------------------------------------------------------
(* A session works with the settings as the user last left them: those of  *)
(* the previous session after an orderly exit, those of the last save that *)
(* ended after a crash; a key the file's version did not know has its      *)
(* default.                                                                *)
SettingsKept == phase \in Session => main_json = meant

(* Nothing counted is lost over an orderly exit, and a crash loses one     *)
(* session only; whatever a crash leaves of the file, what is read from it *)
(* is the truth about the days it still tells of: no hours are counted by  *)
(* half or for another day.                                                *)
StatisticsKept ==
  /\ phase \in Session => date_entries = counted
  /\ statistics_file # None => PartOf(Read(statistics_file), written)

(* No frame is drawn with a font whose file is not whole, unless a failure *)
(* spoiled it: not with one whose download has not ended.                  *)
RenderHasFonts == rendering => \A f \in Fonts : fonts[f] = "whole" \/ f \in spoiled

(* The update keeps its order, wherever it fails or the game crashes: the   *)
(* plugin's file is replaced only by a download that has ended, not by      *)
(* what a crash left of an earlier one in the temporary folder, nor by one  *)
(* that could not begin; only the copy to another volume can leave part of  *)
(* it; and a release is noted only once it has replaced the old plugin.     *)
UpdateInOrder ==
  /\ plugin_file # "part" /\ (plugin_file = "half" => ~one_volume)
  /\ release_file # "none" => plugin_file # "old"
=============================================================================
