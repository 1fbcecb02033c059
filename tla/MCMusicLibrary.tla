--------------------------- MODULE MCMusicLibrary ---------------------------
(* Three downloads: the second replaces the song of the first, the third is *)
(* another song; one delete request at a time, the cleanup and a player.    *)
EXTENDS MusicLibrary

CONSTANTS d1, d2, d3, k1, k2

MCDownloads == {d1, d2, d3}
MCKeyOf  == [d \in MCDownloads |-> IF d = d3 THEN k2 ELSE k1]
MCPathOf == [d \in MCDownloads |-> d]
=============================================================================
