--------------------------- MODULE MCSearchDaemon ---------------------------
(* The search engine, the file index, the file system walk and the          *)
(* calculator for TLC.  They do not interact, so they take turns: one moves *)
(* while the others are where they began.                                   *)
EXTENDS MCSearchEngine, DaemonIndex, DaemonWalk, DaemonCalculator,
        MCArithmetic

CONSTANTS
  \* of IndexStore
  dir, sub, leaf, deep, home,
  \* of FileSystemWalk
  desktop, documents, notes, draft, old, older, note, memo

\* What a theorem about collect_root takes for granted (see IndexStore).
ASSUME FolderTree == Index!TreeAssumption

MCParent == (dir :> home) @@ (leaf :> dir) @@ (sub :> dir) @@ (deep :> sub)
MCRoots == <<home>>

MCAlphabets == {[characters |-> {"2", "0", "-", "/"}, longest |-> 6],
                [characters |-> {"2", "-", "/", "(", ")"}, longest |-> 7],
                [characters |-> {"3", "+", "*", "-", " "}, longest |-> 6],
                [characters |-> {"1", "5", ".", "+", "/"}, longest |-> 5],
                [characters |-> {"1", "+", "x"}, longest |-> 3]}

MCContents == (desktop :> <<notes, note>>) @@ (notes :> <<old, draft>>) @@ (old :> <<older>>)
              @@ (documents :> <<memo>>)
MCPlaces == <<desktop, documents>>

indexVars == <<disk, changes, rows, stamp, txn, at, ahead, visited, found, there, same, left,
               request, answer, asked>>
typed == <<alphabet, query>>

AllInit == Init /\ Index!Init /\ Walk!Init /\ Calc!Init

\* Each is there once while the others move, whatever it may begin with.
EngineRests == Init
IndexRests == Index!Init /\ disk = Index!None
CalculatorRests == Calc!Init /\ alphabet.longest = 7

AllNext ==
  \/ IndexRests /\ Walk!Init /\ CalculatorRests /\ Next /\ UNCHANGED <<indexVars, present, typed>>
  \/ EngineRests /\ Walk!Init /\ CalculatorRests /\ Index!Next /\ UNCHANGED <<vars, present, typed>>
  \/ EngineRests /\ IndexRests /\ CalculatorRests /\ Walk!Appear /\ UNCHANGED <<vars, indexVars, typed>>
  \/ EngineRests /\ IndexRests /\ Walk!Init /\ Calc!Type /\ UNCHANGED <<vars, indexVars, present>>

AllSpec == AllInit /\ [][AllNext]_<<vars, indexVars, present, typed>>
=============================================================================
