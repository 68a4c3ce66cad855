-------------------------- MODULE MCUpdateCommand --------------------------
(* TLC instance of UpdateCommand. *)
EXTENDS UpdateCommand

CONSTANTS fileA, fileB

WalkOf == <<fileA, fileB>>
\* The second release no longer bundles fileB.
ShipsOf == <<{fileA, fileB}, {fileA}>>

Calm == \A p \in Procs \ {Updater} : at[p] = "idle"
Plain == ~touched /\ ~emptied /\ ~grow /\ had = "none"

\* The transaction reads nothing that setup writes, and setup nothing that the
\* transaction writes, so their steps commute and the orders that differ in
\* nothing else are left out: the transaction runs with no other command about
\* and nothing comes after it; of its sixteen inputs one is met by setup in
\* all its interleavings, the others by the updater's own setup.
Independent ==
    \/ ~UpdateBegun /\ pc' = pc /\ (Plain \/ (release' = release /\ edited' = edited
                                           /\ cuts' = cuts /\ \A p \in Procs \ {Updater} : at'[p] = "idle"))
    \/ Calm /\ setupVars' = setupVars
============================================================================
