-------------------------- MODULE MCPluginRegistry --------------------------
(* Instances of PluginRegistry and of FastFlowLmAsk for TLC, the two parts  *)
(* of a daemon that read files of the user.  They take turns, one moving    *)
(* while the other is where it began.                                       *)
EXTENDS PluginRegistry, FastFlowLmQuestion

CONSTANTS calculator, clipboard, notes, letter, log, folder

Manifest(id, padded, valid, enabled) ==
  [id |-> id, padded |-> padded, valid |-> valid, enabled |-> enabled]

MCManifests ==
  {Manifest(calculator, FALSE, TRUE, FALSE), Manifest(notes, FALSE, TRUE, TRUE),
   Manifest(notes, FALSE, TRUE, FALSE), Manifest(notes, FALSE, FALSE, TRUE)}

\* A manifest whose id is padded with white space.
PaddedManifests == MCManifests \cup {Manifest(notes, TRUE, TRUE, TRUE)}

MCHits == {<<folder, log>>, <<log, letter>>}
MCSettings == {[files |-> 2, file |-> 5, context |-> 5], [files |-> 0, file |-> 0, context |-> 1]}

questionVars == <<step, limits, size, matches, kept, total, got, process, helper, wrote, taken,
                  reader, polls>>

ReadersInit == Init /\ Question!Init
ReadersNext ==
  \/ Question!Init /\ limits.files = 0 /\ Next /\ UNCHANGED questionVars
  \/ /\ Init /\ listable /\ \A p \in Paths : files[p] = Missing
     /\ Question!Next /\ UNCHANGED vars

ReadersSpec == ReadersInit /\ [][ReadersNext]_<<vars, questionVars>> /\ Question!Fairness

\* A listing that hangs does not keep ask waiting (see FastFlowLmAsk).
ListingTimesOut == Question!ListingTimesOut
=============================================================================
