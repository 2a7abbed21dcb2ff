------------------------------ MODULE MCImport ------------------------------
(***************************************************************************)
(* A small instance of PlayerImport for TLC.  Idle importers are alike, so *)
(* the second one begins only while the first one is at work.  (TLC's own  *)
(* symmetry reduction cannot be used with a temporal property.)            *)
(***************************************************************************)
EXTENDS PlayerImport

CONSTANTS i1, i2, s1, s2

Begins(i) == job[i].stage = "idle" /\ job'[i].stage # "idle"

MCNext == Next /\ (Begins(i2) => job[i1].stage # "idle")

\* Whatever an importer does it may leave undone; only time does not stand still.
MCSpec == Init /\ [][MCNext]_vars /\ WF_vars(Tick)

=============================================================================
