----------------------------- MODULE Downloads ------------------------------
(***************************************************************************)
(* The files that come from the network: the plugin itself, which the      *)
(* loader replaces before it loads it, the note about the new release, and *)
(* the fonts, which a thread of the plugin fetches while the game runs.    *)
(*                                                                         *)
(* A download (network::download_file) is out of reach, or truncates its   *)
(* target and then counts as done, whatever came: the whole file; what     *)
(* came before a failed read, which the loop cannot tell from the end; or  *)
(* the page of an HTTP error, whose status nobody looks at.                *)
(***************************************************************************)
EXTENDS Integers

CONSTANT FontCount    \* a font is its index in fonts_initializer::filenames

ASSUME DownloadsAssumption == FontCount \in Nat

VARIABLES
  plugin_file,        \* the old library, the new one, or another of Contents
  temp_file,          \* the update in the folder of temporary files
  one_volume,         \* that folder and the game's are on one volume; constant
  release_file,       \* release_information.mpk: "none", "cut" or "whole"
  parsed_information, \* the window about the release is shown
  fonts,              \* the file of each font; "cut" when it is not the whole
  missing_fonts,      \* the queue of the fonts' thread, which is in the order
                      \* of filenames: the set of the fonts in it
  downloading,        \* its front while that is downloaded, or NoFont
  spoiled,            \* history: fonts cut, or not delivered, by a failure
  rendering           \* ImGui and its fonts are initialized

updater == <<plugin_file, temp_file, one_volume, release_file>>
font_files == <<fonts, missing_fonts, downloading, spoiled>>
downloads == <<updater, font_files, parsed_information, rendering>>

Fonts == 1..FontCount
NoFont == 0
Files == {"none", "cut", "whole"}

\* What a library's file may hold: the page of an HTTP error; a download that a
\* failed read ended, one that is not over; a copy that is not over
Loadable == {"old", "new"}
Downloaded == {"new", "page", "misread"}
Contents == Loadable \cup Downloaded \cup {"part", "half"}

DownloadsTypeOK ==
  /\ plugin_file \in Contents /\ one_volume \in BOOLEAN
  /\ temp_file \in Downloaded \cup {"part", "none"}
  /\ release_file \in Files /\ parsed_information \in BOOLEAN
  /\ fonts \in [Fonts -> Files] /\ missing_fonts \subseteq Fonts
  /\ downloading \in missing_fonts \cup {NoFont}
  /\ spoiled \subseteq Fonts /\ rendering \in BOOLEAN

DownloadsInit ==
  /\ plugin_file \in Loadable /\ temp_file = "none" /\ one_volume \in BOOLEAN
  /\ release_file = "none" /\ parsed_information = FALSE
  /\ fonts \in [Fonts -> {"none", "whole"}] /\ missing_fonts = {}
  /\ downloading = NoFont /\ spoiled = {} /\ rendering = FALSE

-----------------------------------------------------------------------------
(* loader_t::update_plugin: to a temporary file, which is then renamed     *)

BeginDownload ==
  temp_file' = "part" /\ UNCHANGED <<plugin_file, one_volume, release_file>>

EndDownload ==
  temp_file' \in Downloaded /\ UNCHANGED <<plugin_file, one_volume, release_file>>

Moved == plugin_file' = temp_file /\ temp_file' = "none" /\ UNCHANGED one_volume

\* std::filesystem::rename copies a file to another volume.
BeginCopy ==
  plugin_file' = "half" /\ UNCHANGED <<temp_file, one_volume, release_file>>

Copied ==
  /\ plugin_file' = temp_file /\ temp_file' \in {temp_file, "none"}
  /\ UNCHANGED one_volume

-----------------------------------------------------------------------------
(* The fonts                                                               *)

\* The constructor of fonts_initializer; a font that is there is not missing,
\* whatever the file holds.
FindMissing ==
  /\ missing_fonts' = {f \in Fonts : fonts[f] = "none"}
  /\ spoiled' = {f \in spoiled : fonts[f] # "none"}
  /\ downloading' = NoFont /\ UNCHANGED fonts

CanAssignFontsEarly == missing_fonts \subseteq {downloading}     \* mutant
CanAssignFonts == missing_fonts = {}

\* download_missing_fonts: the download of the front begins, or cannot
BeginFont ==
  /\ downloading = NoFont
  /\ \E f \in missing_fonts :
       /\ \A g \in missing_fonts : f <= g
       /\ \/ /\ fonts' = [fonts EXCEPT ![f] = "cut"] /\ downloading' = f
             /\ UNCHANGED <<missing_fonts, spoiled>>
          \/ /\ missing_fonts' = missing_fonts \ {f} /\ spoiled' = spoiled \cup {f}
             /\ UNCHANGED <<fonts, downloading>>
  /\ UNCHANGED <<updater, parsed_information, rendering>>

\* It ends with the whole font or with something else: nothing is looked at.
EndFont ==
  /\ downloading # NoFont
  /\ \/ fonts' = [fonts EXCEPT ![downloading] = "whole"] /\ UNCHANGED spoiled
     \/ spoiled' = spoiled \cup {downloading} /\ UNCHANGED fonts
  /\ missing_fonts' = missing_fonts \ {downloading} /\ downloading' = NoFont
  /\ UNCHANGED <<updater, parsed_information, rendering>>

\* The thread is stopped at the exit of the game, or dies with it.
StopFonts ==
  /\ spoiled' = spoiled \cup ({downloading} \ {NoFont})
  /\ missing_fonts' = {} /\ downloading' = NoFont
  /\ rendering' = FALSE /\ parsed_information' = FALSE
  /\ UNCHANGED fonts

\* close_window of the release information, whose file may refuse to go
CloseInformation ==
  /\ parsed_information
  /\ parsed_information' = FALSE /\ release_file' \in {release_file, "none"}
  /\ UNCHANGED <<plugin_file, temp_file, one_volume, font_files, rendering>>
=============================================================================
