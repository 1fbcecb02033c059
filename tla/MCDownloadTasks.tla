--------------------------- MODULE MCDownloadTasks ---------------------------
(* Three tasks on two threads, one of them hung: the pool is full, and the  *)
(* table is cleaned while tasks wait and run.                               *)
(*                                                                         *)
(* Beside them the metadata of a song from three platforms: the two that    *)
(* may leave a translation without lyrics, and one that does not.  The two  *)
(* share no state: side tells which is explored.                            *)
EXTENDS DownloadTasks, LyricsSelection

MCProviders == <<"kugou", "netease", "qishui">>

VARIABLE side

DownloadInit == /\ Init /\ LyricsInit /\ side \in {"tasks", "song"}
                /\ side = "tasks" => preferred = NoPreference

DownloadNext == /\ \/ side = "tasks" /\ Next       /\ UNCHANGED lyricsVars
                   \/ side = "song"  /\ LyricsNext /\ UNCHANGED vars
                /\ UNCHANGED side

DownloadSpec == /\ DownloadInit /\ [][DownloadNext]_<<vars, lyricsVars, side>>
                /\ Fairness
=============================================================================
