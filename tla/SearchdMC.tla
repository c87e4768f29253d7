----------------------------- MODULE SearchdMC -----------------------------
(* Small instances of Searchd for TLC. *)
EXTENDS Searchd

\* Everything that disturbs the daemon, and what MaxClients children need.
Surroundings == {
    {"hup", "term", "die", "shrink", "race"},
    {"hup", "die", "fork", "conf"},
    {"hup", "term", "foreground"}}
=============================================================================
